---- MODULE Spec2Model ----
(***************************************************************************)
(* Selective Publisher: the criterion tree (src/src/criterion.ts), the     *)
(* sync engine (src/src/publishing-service.ts) and the publish / preview   *)
(* flow (src/src/main.ts, the preview modal, the git helper).              *)
(*                                                                         *)
(* Strings are sequences of characters, each a one-character string       *)
(* ("BQ" is the backquote, which a TLA+ string cannot hold), so that       *)
(* toLowerCase,                                                            *)
(* startsWith, split, includes and the pattern matchers are computed and   *)
(* not assumed.                                                            *)
(***************************************************************************)
EXTENDS Integers, Sequences, FiniteSets, TLC

VARIABLES
    \* ---- criterion harness (SpecCrit) ----
    tree,        \* the criterion tree T under test
    file,        \* the file f it is evaluated on: [path, basename, content, metadata]
    serialized,  \* T.serialize(), or NoData before it ran
    restored,    \* Criterion.deserialize(serialized), or NoData before it ran
    result,      \* T.evaluate(f): "true" | "false" | "throw", "none" before it ran
    result2,     \* restored.evaluate(f), likewise
    publishable  \* isFilePublishable(f) with settings.criterion = T, "none" before

critVars == <<tree, file, serialized, restored, result, result2, publishable>>

VARIABLES
    \* ---- publish / preview flow (Spec) ----
    settings,    \* the plugin's settings record
    vault,       \* the vault: path -> [content, mtime] of each TFile
    dest,        \* the publishing directory: path -> [exists, content, mtime]
    now,         \* the clock that stamps modification times
    edits,       \* how many times a note was edited
    synced,      \* history: a reconcile completed without failure and
                 \* no note was edited since it read the vault
    ops          \* the publishNotes / previewPublishableFiles calls: slot -> record

syncVars == <<settings, vault, dest, now, edits, synced, ops>>

VARIABLES
    \* ---- configuration: load, criterion editor, save (SpecConfig) ----
    savedData,   \* what loadData() returns: the saved record, NoData for null
    heap,        \* the Criterion objects: object id -> its fields; a composite
                 \* holds the ids of its children
    liveCriterion, \* settings.criterion: an object id, 0 before loadSettings set it
    editor,      \* the CriterionEditorModal: [open, rootCriterion, steps]
    plugin       \* "unloaded", then "loaded", or "failed" when onload raised

configVars == <<savedData, heap, liveCriterion, editor, plugin>>

VARIABLES
    \* ---- one function applied to drawn arguments (SpecGlob, SpecSelect) ----
    call,        \* the function and its arguments
    ret          \* what it returned, NoData before it ran

fnVars == <<call, ret>>

VARIABLES
    \* ---- calls in flight and the publishing directory (SpecFlight) ----
    repo,        \* settings.repo: the publishing directory of the settings
    publishingService, \* the plugin's PublishingService: [repoPath]
    saving,      \* how many saveSettings calls await saveData
    repoChanges, \* how many times the directory field was changed
    calls        \* the publishNotes / previewPublishableFiles calls: slot ->
                 \* [pc, todo, service, syncDirs, gitDirs]

flightVars == <<repo, publishingService, saving, repoChanges, calls>>

vars == <<critVars, syncVars, configVars, fnVars, flightVars>>

----------------------------------------------------------------------------
(* Bounds of the model *)

\* most children of an And / Or node in the trees the harness draws
MaxKids == 2

\* most edits of vault notes in one behaviour
MaxEdits == 2

\* most changes made in criterion editors in one behaviour
MaxSteps == 1

\* most times the criterion editor is opened in one behaviour
MaxSessions == 2

\* most lines of a glob list given to matchesGlobPatterns
MaxLines == 3

----------------------------------------------------------------------------
(* String helpers (JavaScript String methods on character sequences) *)

LowerChar(c) ==
    CASE c = "P" -> "p"
      [] c = "B" -> "b"
      [] c = "D" -> "d"
      [] OTHER -> c

toLowerCase(s) == [i \in 1..Len(s) |-> LowerChar(s[i])]

startsWith(s, prefix) ==
    /\ Len(prefix) <= Len(s)
    /\ SubSeq(s, 1, Len(prefix)) = prefix

endsWith(s, suffix) ==
    /\ Len(suffix) <= Len(s)
    /\ SubSeq(s, Len(s) - Len(suffix) + 1, Len(s)) = suffix

\* String.prototype.includes: substring test
includes(s, sub) ==
    \E i \in 0..(Len(s) - Len(sub)) : SubSeq(s, i + 1, i + Len(sub)) = sub

\* String.prototype.split(sep) for a one-character separator
RECURSIVE splitFrom(_, _, _)
splitFrom(s, sep, acc) ==
    IF s = <<>> THEN <<acc>>
    ELSE IF Head(s) = sep THEN <<acc>> \o splitFrom(Tail(s), sep, <<>>)
    ELSE splitFrom(Tail(s), sep, Append(acc, Head(s)))

split(s, sep) == splitFrom(s, sep, <<>>)

IsSpace(c) == c \in {" ", "\t", "\n"}

RECURSIVE trimStart(_)
trimStart(s) == IF s # <<>> /\ IsSpace(Head(s)) THEN trimStart(Tail(s)) ELSE s

RECURSIVE trimEnd(_)
trimEnd(s) ==
    IF s # <<>> /\ IsSpace(s[Len(s)]) THEN trimEnd(SubSeq(s, 1, Len(s) - 1)) ELSE s

trim(s) == trimEnd(trimStart(s))

\* Array.prototype.join(sep) on an array of strings
RECURSIVE join(_, _)
join(arr, sep) ==
    IF arr = <<>> THEN <<>>
    ELSE IF Len(arr) = 1 THEN arr[1]
    ELSE arr[1] \o sep \o join(Tail(arr), sep)

Range(seq) == {seq[i] : i \in 1..Len(seq)}

----------------------------------------------------------------------------
(* The JavaScript RegExp engine, on the fragment the model's patterns use:  *)
(* literal characters, '.', a leading '^', a trailing '$', and '(' which,    *)
(* never being closed in this alphabet, makes the constructor throw.        *)

RegExpThrows(pattern) == \E i \in 1..Len(pattern) : pattern[i] = "("

\* new RegExp(pattern, 'i').test(input), for a pattern that compiles
RegExpTest(pattern, input) ==
    LET anchoredStart == pattern # <<>> /\ pattern[1] = "^"
        rest == IF anchoredStart THEN Tail(pattern) ELSE pattern
        anchoredEnd == rest # <<>> /\ rest[Len(rest)] = "$"
        core == IF anchoredEnd THEN SubSeq(rest, 1, Len(rest) - 1) ELSE rest
    IN  \E i \in 0..(Len(input) - Len(core)) :
            /\ anchoredStart => i = 0
            /\ anchoredEnd => i + Len(core) = Len(input)
            /\ \A k \in 1..Len(core) :
                   \/ core[k] = "."
                   \/ LowerChar(core[k]) = LowerChar(input[i + k])

(* picomatch(glob, {dot: true, contains: true}): literals, '*' (any run of  *)
(* characters other than '/'), '**' (any run, and a following '/' may match *)
(* nothing); the match may start and end                                   *)
(* anywhere in the input (contains).  "LONG" stands for a run that makes    *)
(* the pattern longer than picomatch accepts, the case in which it throws.  *)

PicomatchThrows(glob) == \E i \in 1..Len(glob) : glob[i] = "LONG"

RECURSIVE GlobPrefix(_, _)
GlobPrefix(g, s) ==
    IF g = <<>> THEN TRUE
    ELSE IF Len(g) >= 2 /\ g[1] = "*" /\ g[2] = "*"
         THEN \/ GlobPrefix(Tail(Tail(g)), s)
              \/ Len(g) >= 3 /\ g[3] = "/" /\ GlobPrefix(SubSeq(g, 4, Len(g)), s)
              \/ s # <<>> /\ GlobPrefix(g, Tail(s))
    ELSE IF g[1] = "*"
         THEN \/ GlobPrefix(Tail(g), s)
              \/ s # <<>> /\ Head(s) # "/" /\ GlobPrefix(g, Tail(s))
    ELSE s # <<>> /\ Head(s) = Head(g) /\ GlobPrefix(Tail(g), Tail(s))

PicomatchIsMatch(glob, input) ==
    \E k \in 0..Len(input) : GlobPrefix(glob, SubSeq(input, k + 1, Len(input)))

----------------------------------------------------------------------------
(* criterion.ts: enums, registry and utilities *)

CriterionType == {"Tag", "Frontmatter", "Title", "Path", "Content", "And", "Or", "Not"}

TextMatchMode == {"contains", "matches regex", "matches glob"}

TagMatchMode == {"equals", "starts with", "includes"}

\* the classes the @RegisterCriterion decorator registered
registry == CriterionType

\* "no value yet" for the variables that hold a tree or serialized data
NoData == [type |-> "none"]

\* the value standing for a raised Error("Unknown criterion type: ...")
UnknownTypeError == [type |-> "throw"]

(* Frontmatter values: [kind |-> "string", s |-> chars] or                 *)
(* [kind |-> "array", items |-> sequence of chars].                        *)
Quote(s) == <<"\"">> \o s \o <<"\"">>

stringifyValue(value) ==
    IF value.kind = "string" THEN value.s
    ELSE <<"[">> \o join([i \in 1..Len(value.items) |-> Quote(value.items[i])], <<",">>)
               \o <<"]">>

\* safeRegexTest: "true" / "false", never "throw"
safeRegexTest(pattern, input) ==
    IF RegExpThrows(pattern) THEN "false"
    ELSE IF RegExpTest(pattern, input) THEN "true" ELSE "false"

parseGlobLine(line) ==
    LET trimmed == trim(line)
    IN  IF trimmed = <<>> \/ startsWith(trimmed, <<"#">>)
        THEN [negated |-> FALSE, glob |-> <<>>]
        ELSE LET negated == startsWith(trimmed, <<"!">>)
             IN  [negated |-> negated,
                  glob |-> IF negated THEN Tail(trimmed) ELSE trimmed]

\* variant: a matching line can only add to `matched`, never reset it
RECURSIVE matchesGlobLinesAccumulate(_, _, _)
matchesGlobLinesAccumulate(lines, input, matched) ==
    IF lines = <<>> THEN matched
    ELSE LET info == parseGlobLine(Head(lines))
         IN  IF Len(info.glob) = 0
             THEN matchesGlobLinesAccumulate(Tail(lines), input, matched)
             ELSE IF PicomatchThrows(info.glob)
                  THEN matchesGlobLinesAccumulate(Tail(lines), input, matched)
             ELSE IF PicomatchIsMatch(info.glob, input)
                  THEN matchesGlobLinesAccumulate(Tail(lines), input,
                                                  matched \/ ~info.negated)
             ELSE matchesGlobLinesAccumulate(Tail(lines), input, matched)

\* the loop of matchesGlobPatterns over the lines, `matched` carried along
RECURSIVE matchesGlobLines(_, _, _)
matchesGlobLines(lines, input, matched) ==
    IF lines = <<>> THEN matched
    ELSE LET info == parseGlobLine(Head(lines))
         IN  IF Len(info.glob) = 0 THEN matchesGlobLines(Tail(lines), input, matched)
             ELSE IF PicomatchThrows(info.glob)
                  THEN matchesGlobLines(Tail(lines), input, matched)
             ELSE IF PicomatchIsMatch(info.glob, input)
                  THEN matchesGlobLines(Tail(lines), input, ~info.negated)
             ELSE matchesGlobLines(Tail(lines), input, matched)

matchesGlobPatterns(multiLinePattern, input) ==
    matchesGlobLines(split(multiLinePattern, "\n"), input, FALSE)

----------------------------------------------------------------------------
(* criterion.ts: tag extraction *)

\* [\w-]: the letters, digits, '_' and '-' of the model's alphabet
IsWordChar(c) == c \in {"p", "l", "b", "d", "x", "m", "P", "B", "D", "_", "-", "1"}

RECURSIVE wordRun(_)
wordRun(s) ==
    IF s # <<>> /\ IsWordChar(Head(s)) THEN <<Head(s)>> \o wordRun(Tail(s)) ELSE <<>>

\* line.match(/#([\w-]+)/g)?.map(tag => tag.substring(1)) || []
RECURSIVE matchTags(_)
matchTags(line) ==
    IF line = <<>> THEN <<>>
    ELSE IF Head(line) = "#" /\ wordRun(Tail(line)) # <<>>
         THEN LET w == wordRun(Tail(line))
              IN  <<w>> \o matchTags(SubSeq(line, Len(w) + 2, Len(line)))
    ELSE matchTags(Tail(line))

\* variant: a fence line enters the code block and none leaves it
RECURSIVE extractTagsFromLinesNoExit(_, _, _)
extractTagsFromLinesNoExit(lines, inCodeBlock, tags) ==
    IF lines = <<>> THEN tags
    ELSE LET line == Head(lines)
         IN  IF startsWith(trim(line), <<"BQ", "BQ", "BQ">>)
             THEN extractTagsFromLinesNoExit(Tail(lines), TRUE, tags)
             ELSE IF ~inCodeBlock
                  THEN IF startsWith(trim(line), <<"%", "%">>)
                       THEN extractTagsFromLinesNoExit(Tail(lines), inCodeBlock, tags)
                       ELSE extractTagsFromLinesNoExit(Tail(lines), inCodeBlock,
                                                       tags \cup Range(matchTags(line)))
             ELSE extractTagsFromLinesNoExit(Tail(lines), inCodeBlock, tags)

\* the loop of extractTagsFromContent over the lines
RECURSIVE extractTagsFromLines(_, _, _)
extractTagsFromLines(lines, inCodeBlock, tags) ==
    IF lines = <<>> THEN tags
    ELSE LET line == Head(lines)
         IN  IF startsWith(trim(line), <<"BQ", "BQ", "BQ">>)
             THEN extractTagsFromLines(Tail(lines), ~inCodeBlock, tags)
             ELSE IF ~inCodeBlock
                  THEN IF startsWith(trim(line), <<"%", "%">>)
                       THEN extractTagsFromLines(Tail(lines), inCodeBlock, tags)
                       ELSE extractTagsFromLines(Tail(lines), inCodeBlock,
                                                 tags \cup Range(matchTags(line)))
             ELSE extractTagsFromLines(Tail(lines), inCodeBlock, tags)

extractTagsFromContent(content) ==
    extractTagsFromLines(split(content, "\n"), FALSE, {})

\* metadata?.frontmatter?.[key]: Present / the value
HasFrontmatter(metadata, key) == key \in DOMAIN metadata.frontmatter

getAllTagsFromFile(f) ==
    LET tagsFromFrontmatter ==
            IF ~HasFrontmatter(f.metadata, "tags") THEN {}
            ELSE LET frontmatterTags == f.metadata.frontmatter["tags"]
                 IN  IF frontmatterTags.kind = "array"
                     THEN {[kind |-> "string", s |-> frontmatterTags.items[i]].s :
                               i \in 1..Len(frontmatterTags.items)}
                     ELSE IF frontmatterTags.s # <<>>
                          THEN {stringifyValue(frontmatterTags)}
                          ELSE {}
    IN  tagsFromFrontmatter \cup extractTagsFromContent(f.content)

----------------------------------------------------------------------------
(* criterion.ts: the criterion classes *)

\* constructors
TagCriterion(tag, matchMode) ==
    [type |-> "Tag", tag |-> toLowerCase(tag), matchMode |-> matchMode]

\* the default value of the constructor's matchMode parameter
TagCriterionDefault(tag) == TagCriterion(tag, "starts with")

FrontmatterCriterion(key, value) == [type |-> "Frontmatter", key |-> key, value |-> value]

ContentCriterion(regex) == [type |-> "Content", regex |-> regex]

TitleCriterion(pattern, matchMode) ==
    [type |-> "Title", pattern |-> pattern, matchMode |-> matchMode]

PathCriterion(pattern, matchMode) ==
    [type |-> "Path", pattern |-> pattern, matchMode |-> matchMode]

AndCriterion(criteria) == [type |-> "And", criteria |-> criteria]

OrCriterion(criteria) == [type |-> "Or", criteria |-> criteria]

NotCriterion(criterion) == [type |-> "Not", criterion |-> criterion]

Bool(b) == IF b THEN "true" ELSE "false"

\* variant: StartsWith as a plain prefix test
TagEvaluatePrefix(c, f) ==
    Bool(\E tag \in getAllTagsFromFile(f) :
            LET normalizedTag == toLowerCase(tag)
            IN  CASE c.matchMode = "equals" -> normalizedTag = c.tag
                  [] c.matchMode = "starts with" -> startsWith(normalizedTag, c.tag)
                  [] c.matchMode = "includes" ->
                        c.tag \in Range(split(normalizedTag, "/"))
                  [] OTHER -> FALSE)

\* TagCriterion.evaluate
TagEvaluate(c, f) ==
    Bool(\E tag \in getAllTagsFromFile(f) :
            LET normalizedTag == toLowerCase(tag)
            IN  CASE c.matchMode = "equals" -> normalizedTag = c.tag
                  [] c.matchMode = "starts with" ->
                        \/ normalizedTag = c.tag
                        \/ startsWith(normalizedTag, c.tag \o <<"/">>)
                  [] c.matchMode = "includes" ->
                        c.tag \in Range(split(normalizedTag, "/"))
                  [] OTHER -> FALSE)

\* FrontmatterCriterion.evaluate: new RegExp outside any try
FrontmatterEvaluate(c, f) ==
    IF ~HasFrontmatter(f.metadata, c.key) THEN "false"
    ELSE LET regex == <<"^">> \o c.value \o <<"$">>
         IN  IF RegExpThrows(regex) THEN "throw"
             ELSE Bool(RegExpTest(regex, stringifyValue(f.metadata.frontmatter[c.key])))

ContentEvaluate(c, f) == safeRegexTest(c.regex, f.content)

\* PathCriterion.getTargetValue: file.path.replace(/\\/g, '/')
NormalizePath(path) == [i \in 1..Len(path) |-> IF path[i] = "\\" THEN "/" ELSE path[i]]

getTargetValue(c, f) == IF c.type = "Title" THEN f.basename ELSE NormalizePath(f.path)

\* variant: in Glob mode the whole pattern is one rule, tested directly
PatternEvaluateSingleRule(c, f) ==
    LET value == getTargetValue(c, f)
    IN  CASE c.matchMode = "matches regex" -> safeRegexTest(c.pattern, value)
          [] c.matchMode = "matches glob" ->
                Bool(~PicomatchThrows(c.pattern) /\ PicomatchIsMatch(c.pattern, value))
          [] OTHER -> Bool(includes(toLowerCase(value), toLowerCase(c.pattern)))

\* PatternCriterion.evaluate
PatternEvaluate(c, f) ==
    LET value == getTargetValue(c, f)
    IN  CASE c.matchMode = "matches regex" -> safeRegexTest(c.pattern, value)
          [] c.matchMode = "matches glob" -> Bool(matchesGlobPatterns(c.pattern, value))
          [] OTHER -> Bool(includes(toLowerCase(value), toLowerCase(c.pattern)))

RECURSIVE evaluate(_, _)
RECURSIVE AndEvaluate(_, _)
RECURSIVE OrEvaluate(_, _)

\* AndCriterion.evaluate: the loop over `criteria`; a throwing child propagates
AndEvaluate(criteria, f) ==
    IF criteria = <<>> THEN "true"
    ELSE LET r == evaluate(Head(criteria), f)
         IN  IF r = "true" THEN AndEvaluate(Tail(criteria), f) ELSE r

\* OrCriterion.evaluate
OrEvaluate(criteria, f) ==
    IF criteria = <<>> THEN "false"
    ELSE LET r == evaluate(Head(criteria), f)
         IN  IF r = "false" THEN OrEvaluate(Tail(criteria), f) ELSE r

\* NotCriterion.evaluate
NotEvaluate(c, f) ==
    LET r == evaluate(c.criterion, f)
    IN  IF r = "throw" THEN "throw" ELSE Bool(r = "false")

\* how many children the loop of AndCriterion.evaluate evaluates: it leaves
\* at the first child that is not true (false, or a raise)
RECURSIVE AndVisited(_, _)
AndVisited(criteria, f) ==
    IF criteria = <<>> THEN 0
    ELSE IF evaluate(Head(criteria), f) = "true" THEN 1 + AndVisited(Tail(criteria), f)
    ELSE 1

\* how many children the loop of OrCriterion.evaluate evaluates
RECURSIVE OrVisited(_, _)
OrVisited(criteria, f) ==
    IF criteria = <<>> THEN 0
    ELSE IF evaluate(Head(criteria), f) = "false" THEN 1 + OrVisited(Tail(criteria), f)
    ELSE 1

evaluate(c, f) ==
    CASE c.type = "Tag" -> TagEvaluate(c, f)
      [] c.type = "Frontmatter" -> FrontmatterEvaluate(c, f)
      [] c.type = "Content" -> ContentEvaluate(c, f)
      [] c.type \in {"Title", "Path"} -> PatternEvaluate(c, f)
      [] c.type = "And" -> AndEvaluate(c.criteria, f)
      [] c.type = "Or" -> OrEvaluate(c.criteria, f)
      [] c.type = "Not" -> NotEvaluate(c, f)

\* TagCriterion.serialize: { type, tag }
TagSerialize(c) == [type |-> c.type, tag |-> c.tag]

\* TagCriterion.deserialize: new TagCriterion(data.tag)
TagDeserialize(data) == TagCriterionDefault(data.tag)

RECURSIVE serialize(_)
serialize(c) ==
    CASE c.type = "Tag" -> TagSerialize(c)
      [] c.type = "Frontmatter" -> [type |-> c.type, key |-> c.key, value |-> c.value]
      [] c.type = "Content" -> [type |-> c.type, regex |-> c.regex]
      [] c.type \in {"Title", "Path"} ->
            [type |-> c.type, pattern |-> c.pattern, matchMode |-> c.matchMode]
      [] c.type \in {"And", "Or"} ->
            [type |-> c.type,
             criteria |-> [i \in 1..Len(c.criteria) |-> serialize(c.criteria[i])]]
      [] c.type = "Not" -> [type |-> c.type, criterion |-> serialize(c.criterion)]

\* variant: a child of an unregistered type is left out of its And / Or node
RECURSIVE deserializeSkipUnknown(_)
deserializeSkipUnknown(data) ==
    IF data.type \notin registry THEN UnknownTypeError
    ELSE CASE data.type = "Tag" -> TagDeserialize(data)
           [] data.type = "Frontmatter" -> FrontmatterCriterion(data.key, data.value)
           [] data.type = "Content" -> ContentCriterion(data.regex)
           [] data.type = "Title" -> TitleCriterion(data.pattern, data.matchMode)
           [] data.type = "Path" -> PathCriterion(data.pattern, data.matchMode)
           [] data.type \in {"And", "Or"} ->
                 LET kids == [i \in 1..Len(data.criteria) |->
                                 deserializeSkipUnknown(data.criteria[i])]
                 IN  [type |-> data.type,
                      criteria |-> SelectSeq(kids, LAMBDA k : k # UnknownTypeError)]
           [] data.type = "Not" ->
                 LET kid == deserializeSkipUnknown(data.criterion)
                 IN  IF kid = UnknownTypeError THEN UnknownTypeError
                     ELSE NotCriterion(kid)

\* Criterion.deserialize and the static deserialize of each class; an unknown
\* type raises, and the raise passes through the enclosing deserialize calls
RECURSIVE deserialize(_)
deserialize(data) ==
    IF data.type \notin registry THEN UnknownTypeError
    ELSE CASE data.type = "Tag" -> TagDeserialize(data)
           [] data.type = "Frontmatter" -> FrontmatterCriterion(data.key, data.value)
           [] data.type = "Content" -> ContentCriterion(data.regex)
           [] data.type = "Title" -> TitleCriterion(data.pattern, data.matchMode)
           [] data.type = "Path" -> PathCriterion(data.pattern, data.matchMode)
           [] data.type \in {"And", "Or"} ->
                 LET kids == [i \in 1..Len(data.criteria) |-> deserialize(data.criteria[i])]
                 IN  IF \E i \in 1..Len(kids) : kids[i] = UnknownTypeError
                     THEN UnknownTypeError
                     ELSE [type |-> data.type, criteria |-> kids]
           [] data.type = "Not" ->
                 LET kid == deserialize(data.criterion)
                 IN  IF kid = UnknownTypeError THEN UnknownTypeError
                     ELSE NotCriterion(kid)

\* variant: isFilePublishable without the test of the metadata
isFilePublishableNoCheck(criterion, f) == evaluate(criterion, f) = "true"

\* main.ts isFilePublishable: no metadata -> false; a raise is caught -> false
isFilePublishable(criterion, f) ==
    IF ~f.hasMetadata THEN FALSE
    ELSE evaluate(criterion, f) = "true"

----------------------------------------------------------------------------
(* The criterion harness: a tree and a file drawn from bounded sets, then   *)
(* serialize, deserialize, evaluate and isFilePublishable applied to them.  *)

TagLeaves ==
    {TagCriterion(t, m) : t \in {<<"p">>, <<"B">>}, m \in TagMatchMode}

\* leaves that may also appear as children of And / Or
KidLeaves ==
    {TagCriterion(<<"p">>, "equals"),
     TagCriterion(<<"p">>, "starts with"),
     FrontmatterCriterion("status", <<"d">>),
     FrontmatterCriterion("status", <<"(">>),
     TitleCriterion(<<"(">>, "matches regex"),
     TitleCriterion(<<"P">>, "contains"),
     PathCriterion(<<"LONG">>, "matches glob"),
     ContentCriterion(<<"x">>)}

Leaves ==
    TagLeaves \cup KidLeaves \cup
    {FrontmatterCriterion("draft", <<"(">>),
     TitleCriterion(<<"_", "*">>, "matches glob"),
     TitleCriterion(<<"LONG">>, "matches glob"),
     TitleCriterion(<<"!", "_", "*">>, "matches glob"),
     TitleCriterion(<<"x", "\n", "_", "*">>, "matches glob"),
     PathCriterion(<<"d", "/">>, "contains"),
     PathCriterion(<<"(">>, "matches regex"),
     PathCriterion(<<"*", "*", "/", "_", "*", "\n", "!", "b", "*">>, "matches glob"),
     ContentCriterion(<<"(">>)}

KidSeqs == UNION {[1..n -> KidLeaves] : n \in 0..MaxKids}

Composites ==
    {AndCriterion(k) : k \in KidSeqs} \cup {OrCriterion(k) : k \in KidSeqs}

Trees ==
    Leaves \cup Composites \cup {NotCriterion(c) : c \in Leaves \cup Composites}

Str(s) == [kind |-> "string", s |-> s]

Arr(items) == [kind |-> "array", items |-> items]

NoFrontmatter == [k \in {} |-> Str(<<>>)]

Files ==
    {[path |-> <<"d", "/", "p", ".", "m", "d">>, basename |-> <<"p">>,
      content |-> <<"#", "p">>, hasMetadata |-> TRUE,
      metadata |-> [frontmatter |-> [k \in {"status"} |-> Str(<<"d">>)]]],
     [path |-> <<"_", "b", ".", "m", "d">>, basename |-> <<"_", "b">>,
      content |-> <<"x">>, hasMetadata |-> TRUE,
      metadata |-> [frontmatter |->
          [k \in {"status", "tags"} |->
              IF k = "status" THEN Str(<<"d", "d">>) ELSE Arr(<<<<"p", "/", "b">>>>)]]],
     [path |-> <<"p", "l", ".", "m", "d">>, basename |-> <<"p", "l">>,
      content |-> <<"BQ", "BQ", "BQ", "\n", "#", "p">>, hasMetadata |-> TRUE,
      metadata |-> [frontmatter |-> [k \in {"tags"} |-> Str(<<"p", "l">>)]]],
     [path |-> <<"d", "\\", "x", ".", "m", "d">>, basename |-> <<"x">>,
      content |-> <<"%", "%", "#", "p", "\n", "#", "b", "/", "p">>, hasMetadata |-> TRUE,
      metadata |-> [frontmatter |-> [k \in {"tags"} |-> Arr(<<<<"P">>, <<"x">>>>)]]],
     [path |-> <<"b", ".", "m", "d">>, basename |-> <<"b">>,
      content |-> <<>>, hasMetadata |-> TRUE,
      metadata |-> [frontmatter |-> NoFrontmatter]],
     [path |-> <<"p", ".", "m", "d">>, basename |-> <<"p">>,
      content |-> <<"#", "p">>, hasMetadata |-> FALSE,
      metadata |-> [frontmatter |-> NoFrontmatter]]}

\* the publish flow is not part of this specification
SyncIdle ==
    /\ settings = NoData
    /\ vault = NoData
    /\ dest = NoData
    /\ now = 0
    /\ edits = 0
    /\ synced = FALSE
    /\ ops = NoData

\* the configuration is not part of this specification
ConfigIdle ==
    /\ savedData = NoData
    /\ heap = <<>>
    /\ liveCriterion = 0
    /\ editor = NoData
    /\ plugin = "unloaded"

\* no function is under test in this specification
FnIdle ==
    /\ call = NoData
    /\ ret = NoData

\* no call is followed in this specification
FlightIdle ==
    /\ repo = <<>>
    /\ publishingService = NoData
    /\ saving = 0
    /\ repoChanges = 0
    /\ calls = <<>>

CritInit ==
    /\ SyncIdle
    /\ ConfigIdle
    /\ FnIdle
    /\ FlightIdle
    /\ tree \in Trees
    /\ file \in Files
    /\ serialized = NoData
    /\ restored = NoData
    /\ result = "none"
    /\ result2 = "none"
    /\ publishable = "none"

\* T.serialize()
Serialize ==
    /\ serialized = NoData
    /\ serialized' = serialize(tree)
    /\ UNCHANGED <<flightVars, syncVars, configVars, fnVars,
                   tree, file, restored, result, result2, publishable>>

\* Criterion.deserialize(T.serialize())
Deserialize ==
    /\ serialized # NoData
    /\ restored = NoData
    /\ restored' = deserialize(serialized)
    /\ UNCHANGED <<flightVars, syncVars, configVars, fnVars,
                   tree, file, serialized, result, result2, publishable>>

\* T.evaluate(f)
Evaluate ==
    /\ result = "none"
    /\ file.hasMetadata
    /\ result' = evaluate(tree, file)
    /\ UNCHANGED <<flightVars, syncVars, configVars, fnVars,
                   tree, file, serialized, restored, result2, publishable>>

\* Criterion.deserialize(T.serialize()).evaluate(f)
EvaluateRestored ==
    /\ restored \notin {NoData, UnknownTypeError}
    /\ result2 = "none"
    /\ file.hasMetadata
    /\ result2' = evaluate(restored, file)
    /\ UNCHANGED <<flightVars, syncVars, configVars, fnVars,
                   tree, file, serialized, restored, result, publishable>>

\* isFilePublishable(f) with settings.criterion = T
CheckPublishable ==
    /\ publishable = "none"
    /\ publishable' = Bool(isFilePublishable(tree, file))
    /\ UNCHANGED <<flightVars, syncVars, configVars, fnVars,
                   tree, file, serialized, restored, result, result2>>

CritNext ==
    \/ Serialize
    \/ Deserialize
    \/ Evaluate
    \/ EvaluateRestored
    \/ CheckPublishable

SpecCrit == CritInit /\ [][CritNext]_vars

----------------------------------------------------------------------------
(* C1: for every criterion tree T and file f,                               *)
(* Criterion.deserialize(T.serialize()).evaluate(f) equals T.evaluate(f).   *)
RoundTripPreservesEvaluate ==
    (result # "none" /\ result2 # "none") => result2 = result

----------------------------------------------------------------------------
(* C10: a leaf criterion that compiles a pattern (Title, Path, Content,     *)
(* Frontmatter) evaluates to false on an invalid pattern and never raises,  *)
(* so a composite around it is evaluated with that leaf as false.           *)

\* every glob line of the pattern is one that picomatch rejects
AllGlobLinesInvalid(pattern) ==
    LET lines == split(pattern, "\n")
    IN  /\ \E i \in 1..Len(lines) : Len(parseGlobLine(lines[i]).glob) > 0
        /\ \A i \in 1..Len(lines) :
               Len(parseGlobLine(lines[i]).glob) > 0
                   => PicomatchThrows(parseGlobLine(lines[i]).glob)

HasInvalidPattern(c) ==
    CASE c.type = "Frontmatter" -> RegExpThrows(c.value)
      [] c.type = "Content" -> RegExpThrows(c.regex)
      [] c.type \in {"Title", "Path"} ->
            \/ c.matchMode = "matches regex" /\ RegExpThrows(c.pattern)
            \/ c.matchMode = "matches glob" /\ AllGlobLinesInvalid(c.pattern)
      [] OTHER -> FALSE

\* the tree evaluated with every invalid-pattern leaf taken as false
RECURSIVE FailClosedValue(_, _)
FailClosedValue(c, f) ==
    CASE c.type = "And" ->
            \A i \in 1..Len(c.criteria) : FailClosedValue(c.criteria[i], f)
      [] c.type = "Or" ->
            \E i \in 1..Len(c.criteria) : FailClosedValue(c.criteria[i], f)
      [] c.type = "Not" -> ~FailClosedValue(c.criterion, f)
      [] OTHER -> IF HasInvalidPattern(c) THEN FALSE ELSE evaluate(c, f) = "true"

InvalidPatternFailsClosed ==
    result # "none" => result = Bool(FailClosedValue(tree, file))

----------------------------------------------------------------------------
(* The vault and the publishing directory.  A path is a sequence of names   *)
(* (its '/'-separated segments), a name a string of characters.             *)

MdName(base) == base \o <<".", "m", "d">>

NoteA == <<MdName(<<"a">>)>>                  \* a.md
NoteB == <<<<"d">>, MdName(<<"b">>)>>         \* d/b.md
Image == <<<<"i", ".", "p">>>>                \* i.p, an attachment
OldNote == <<MdName(<<"o">>)>>                \* o.md, only in the destination
GitNote == <<<<".", "g">>, MdName(<<"x">>)>>  \* .g/x.md, under a dot directory

VaultPaths == {NoteA, NoteB, Image}

DestPaths == VaultPaths \cup {OldNote, GitNote}

\* the order in which the host enumerates files and readdir lists entries
PathOrder == <<NoteA, NoteB, Image, OldNote, GitNote>>

\* the paths of `set`, in PathOrder
InOrder(set) == SelectSeq(PathOrder, LAMBDA q : q \in set)

\* TFile.path: the names joined by '/'
PathString(path) == join(path, <<"/">>)

FileName(path) == path[Len(path)]

\* the index of the last '.' of a name, 0 when it has none
LastDot(name) ==
    LET dots == {i \in 1..Len(name) : name[i] = "."}
    IN  IF dots = {} THEN 0 ELSE CHOOSE i \in dots : \A j \in dots : j <= i

\* TFile.extension and TFile.basename
Extension(path) ==
    LET name == FileName(path)
    IN  IF LastDot(name) = 0 THEN <<>> ELSE SubSeq(name, LastDot(name) + 1, Len(name))

Basename(path) ==
    LET name == FileName(path)
    IN  IF LastDot(name) = 0 THEN name ELSE SubSeq(name, 1, LastDot(name) - 1)

IsMarkdown(path) == Extension(path) = <<"m", "d">>

\* File contents are sequences of bytes.  An ASCII byte is written as its
\* character; "FF" is a byte that no UTF-8 text contains.
\* the contents a note can have: with the tag #p, without it
ContentPublic == <<"#", "p">>
ContentPrivate == <<"x">>
ContentImage == <<"FF", "i">>
ContentOld == <<"o">>

\* vault.read: the bytes decoded as UTF-8, an invalid byte read as U+FFFD
read(bytes) ==
    [i \in 1..Len(bytes) |-> IF bytes[i] = "FF" THEN "U+FFFD" ELSE bytes[i]]

NoteContents == {ContentPublic, ContentPrivate}

\* metadata.links / metadata.embeds of each note, already resolved by
\* getFirstLinkpathDest: a.md embeds the image and links to d/b.md
LinkTargets(path) == IF path = NoteA THEN <<Image, NoteB>> ELSE <<>>

\* the (file, content, metadata) triple that isFilePublishable evaluates;
\* hasMetadata is whether metadataCache.getFileCache(file) returns a record
FileRecord(path) ==
    [path |-> PathString(path), basename |-> Basename(path),
     content |-> read(vault[path].content), hasMetadata |-> vault[path].hasMetadata,
     metadata |-> [frontmatter |-> NoFrontmatter]]

Absent == [exists |-> FALSE, content |-> <<>>, mtime |-> 0]

----------------------------------------------------------------------------
(* main.ts: the candidate set *)

\* Set.add of each item, in order (a Set keeps insertion order)
RECURSIVE AddAll(_, _)
AddAll(seq, items) ==
    IF items = <<>> THEN seq
    ELSE AddAll(IF Head(items) \in Range(seq) THEN seq ELSE Append(seq, Head(items)),
                Tail(items))

RECURSIVE Flatten(_)
Flatten(seqs) == IF seqs = <<>> THEN <<>> ELSE Head(seqs) \o Flatten(Tail(seqs))

filterPublishableFiles(files) ==
    SelectSeq(files, LAMBDA q : isFilePublishable(settings.criterion, FileRecord(q)))

\* variant: every link target counts as an attachment, notes included
getReferencedAttachmentsAnyFile(path) ==
    IF ~vault[path].hasMetadata THEN <<>>
    ELSE LinkTargets(path)

getReferencedAttachments(path) ==
    IF ~vault[path].hasMetadata THEN <<>>
    ELSE SelectSeq(LinkTargets(path), LAMBDA q : Extension(q) # <<"m", "d">>)

\* variant: the extra patterns select among the publishable notes only
getPublishableFilesGated ==
    LET markdownFiles == InOrder({q \in VaultPaths : IsMarkdown(q)})
        publishableNotes == filterPublishableFiles(markdownFiles)
        withAttachments ==
            IF settings.publishAttachments
            THEN AddAll(publishableNotes,
                        Flatten([i \in 1..Len(publishableNotes) |->
                                    getReferencedAttachments(publishableNotes[i])]))
            ELSE publishableNotes
    IN  IF trim(settings.extraFilePatterns) # <<>>
        THEN AddAll(withAttachments,
                    SelectSeq(withAttachments,
                              LAMBDA q : matchesGlobPatterns(settings.extraFilePatterns,
                                                             NormalizePath(PathString(q)))))
        ELSE withAttachments

getPublishableFiles ==
    LET markdownFiles == InOrder({q \in VaultPaths : IsMarkdown(q)})
        publishableNotes == filterPublishableFiles(markdownFiles)
        withAttachments ==
            IF settings.publishAttachments
            THEN AddAll(publishableNotes,
                        Flatten([i \in 1..Len(publishableNotes) |->
                                    getReferencedAttachments(publishableNotes[i])]))
            ELSE publishableNotes
    IN  IF trim(settings.extraFilePatterns) # <<>>
        THEN AddAll(withAttachments,
                    SelectSeq(InOrder(VaultPaths),
                              LAMBDA q : matchesGlobPatterns(settings.extraFilePatterns,
                                                             NormalizePath(PathString(q)))))
        ELSE withAttachments

----------------------------------------------------------------------------
(* publishing-service.ts: statuses and the destination scan *)

\* variant: a destination as recent as the source counts as modified
getFileStatusNotStrict(srcPath, destPath) ==
    IF ~dest[destPath].exists THEN "new"
    ELSE IF vault[srcPath].mtime >= dest[destPath].mtime THEN "modified"
    ELSE "unmodified"

\* variant: the two modification times compared the other way round
getFileStatusReversed(srcPath, destPath) ==
    IF ~dest[destPath].exists THEN "new"
    ELSE IF dest[destPath].mtime > vault[srcPath].mtime THEN "modified"
    ELSE "unmodified"

getFileStatus(srcPath, destPath) ==
    IF ~dest[destPath].exists THEN "new"
    ELSE IF vault[srcPath].mtime > dest[destPath].mtime THEN "modified"
    ELSE "unmodified"

\* fs.readdir(dir): the names of the entries of `dir`, each once
RECURSIVE Dedup(_)
Dedup(seq) ==
    IF seq = <<>> THEN <<>>
    ELSE <<Head(seq)>> \o Dedup(SelectSeq(Tail(seq), LAMBDA x : x # Head(seq)))

IsPrefix(dir, path) == Len(path) > Len(dir) /\ SubSeq(path, 1, Len(dir)) = dir

readdir(dir) ==
    LET under == SelectSeq(PathOrder, LAMBDA q : dest[q].exists /\ IsPrefix(dir, q))
    IN  Dedup([i \in 1..Len(under) |-> under[i][Len(dir) + 1]])

isFile(fullPath) == fullPath \in DestPaths /\ dest[fullPath].exists

isDirectory(fullPath) == \E q \in DestPaths : dest[q].exists /\ IsPrefix(fullPath, q)

RECURSIVE scanDirectory(_)
RECURSIVE scanEntries(_, _)

\* variant: the scan also descends into dot-prefixed directories
RECURSIVE scanEntriesDotDirs(_, _)
scanEntriesDotDirs(dir, entries) ==
    IF entries = <<>> THEN <<>>
    ELSE LET name == Head(entries)
             fullPath == Append(dir, name)
             found == IF isDirectory(fullPath)
                      THEN scanDirectory(fullPath)
                      ELSE IF isFile(fullPath) /\ endsWith(name, <<".", "m", "d">>)
                           THEN <<fullPath>>
                           ELSE <<>>
         IN  found \o scanEntriesDotDirs(dir, Tail(entries))

\* variant: the scan collects every file, markdown or not
RECURSIVE scanEntriesAnyFile(_, _)
scanEntriesAnyFile(dir, entries) ==
    IF entries = <<>> THEN <<>>
    ELSE LET name == Head(entries)
             fullPath == Append(dir, name)
             found == IF isDirectory(fullPath) /\ ~startsWith(name, <<".">>)
                      THEN scanDirectory(fullPath)
                      ELSE IF isFile(fullPath)
                           THEN <<fullPath>>
                           ELSE <<>>
         IN  found \o scanEntriesAnyFile(dir, Tail(entries))

scanEntries(dir, entries) ==
    IF entries = <<>> THEN <<>>
    ELSE LET name == Head(entries)
             fullPath == Append(dir, name)
             found == IF isDirectory(fullPath) /\ ~startsWith(name, <<".">>)
                      THEN scanDirectory(fullPath)
                      ELSE IF isFile(fullPath) /\ endsWith(name, <<".", "m", "d">>)
                           THEN <<fullPath>>
                           ELSE <<>>
         IN  found \o scanEntries(dir, Tail(entries))

scanDirectory(dir) == scanEntries(dir, readdir(dir))

\* the scan in which fs.readdir raises on the directory fault.dir: the
\* publishedFiles array at the time of the raise, or at the end of the scan
NoFault == [fails |-> FALSE, dir |-> <<>>]

FaultAt(dir) == [fails |-> TRUE, dir |-> dir]

RECURSIVE scanDirectoryUntil(_, _)
RECURSIVE scanEntriesUntil(_, _, _)
scanEntriesUntil(dir, entries, fault) ==
    IF entries = <<>> THEN [publishedFiles |-> <<>>, raised |-> FALSE]
    ELSE LET name == Head(entries)
             fullPath == Append(dir, name)
             found == IF isDirectory(fullPath) /\ ~startsWith(name, <<".">>)
                      THEN scanDirectoryUntil(fullPath, fault)
                      ELSE IF isFile(fullPath) /\ endsWith(name, <<".", "m", "d">>)
                           THEN [publishedFiles |-> <<fullPath>>, raised |-> FALSE]
                           ELSE [publishedFiles |-> <<>>, raised |-> FALSE]
             rest == scanEntriesUntil(dir, Tail(entries), fault)
         IN  IF found.raised THEN found
             ELSE [publishedFiles |-> found.publishedFiles \o rest.publishedFiles,
                   raised |-> rest.raised]

scanDirectoryUntil(dir, fault) ==
    IF fault.fails /\ fault.dir = dir
    THEN [publishedFiles |-> <<>>, raised |-> TRUE]
    ELSE scanEntriesUntil(dir, readdir(dir), fault)

\* getPublishedMarkdownFiles with the place of the raise named: the catch
\* returns [], not the publishedFiles array
getPublishedMarkdownFilesFaultAt(fault) ==
    LET scan == scanDirectoryUntil(<<>>, fault)
    IN  IF scan.raised THEN <<>> ELSE scan.publishedFiles

\* getPublishedMarkdownFiles: a raise anywhere in the scan is caught, [] returned
getPublishedMarkdownFiles(scanRaises) ==
    IF scanRaises THEN <<>> ELSE scanDirectory(<<>>)

\* variant: every scanned file is reported as deleted
getPublishingStatusesNoFilter(publishableFiles, scanRaises) ==
    LET fileStatuses ==
            [i \in 1..Len(publishableFiles) |->
                [path |-> publishableFiles[i],
                 status |-> getFileStatus(publishableFiles[i], publishableFiles[i])]]
        deleted == getPublishedMarkdownFiles(scanRaises)
    IN  fileStatuses \o [i \in 1..Len(deleted) |-> [path |-> deleted[i], status |-> "deleted"]]

getPublishingStatuses(publishableFiles, scanRaises) ==
    LET fileStatuses ==
            [i \in 1..Len(publishableFiles) |->
                [path |-> publishableFiles[i],
                 status |-> getFileStatus(publishableFiles[i], publishableFiles[i])]]
        publishedPaths == getPublishedMarkdownFiles(scanRaises)
        deleted == SelectSeq(publishedPaths, LAMBDA q : q \notin Range(publishableFiles))
    IN  fileStatuses \o [i \in 1..Len(deleted) |-> [path |-> deleted[i], status |-> "deleted"]]

\* processContent: no transformation
processContent(content, path) == content

\* fs.writeFile(destPath, string): the string encoded as UTF-8
writeFile(data) ==
    Flatten([i \in 1..Len(data) |->
                IF data[i] = "U+FFFD" THEN <<"EF", "BF", "BD">> ELSE <<data[i]>>])

\* variant: cleanupRepo with its filter inverted
StalePathsInverted(publishableFiles, scanRaises) ==
    SelectSeq(getPublishedMarkdownFiles(scanRaises),
              LAMBDA q : q \in Range(publishableFiles))

\* cleanupRepo, up to its loop: the published paths that are not publishable
StalePaths(publishableFiles, scanRaises) ==
    SelectSeq(getPublishedMarkdownFiles(scanRaises),
              LAMBDA q : q \notin Range(publishableFiles))

----------------------------------------------------------------------------
(* main.ts: publishNotes and previewPublishableFiles as processes.  An      *)
(* action runs a call from one await to the next; `todo` is what the call   *)
(* still has to do, `log` what it did (history).                            *)

Slots == {1, 2}

IdleOp ==
    [pc |-> "idle", onlyCommit |-> FALSE, todo |-> <<>>, files |-> <<>>,
     log |-> <<>>,
     fileStatuses |-> <<>>, hasUncommittedChanges |-> FALSE,
     syncedAtPreview |-> FALSE]

StepOf(kind) == [kind |-> kind, path |-> <<>>]

StepAt(kind, path) == [kind |-> kind, path |-> path]

Event(ev, ok) == [ev |-> ev, ok |-> ok]

\* variant: publishNotes that stages before it reconciles
publishNotesStepsAddFirst(onlyCommit) ==
    IF onlyCommit
    THEN <<"getPublishableFiles", "add", "updateFilesInRepo", "commit">>
    ELSE <<"pull", "getPublishableFiles", "add", "updateFilesInRepo", "commit", "push">>

\* variant: publishNotes that ignores onlyCommit
publishNotesStepsAlwaysPush(onlyCommit) ==
    <<"pull", "getPublishableFiles", "updateFilesInRepo", "add", "commit", "push">>

\* publishNotes, after the preview and branch checks: its awaited calls in order
publishNotesSteps(onlyCommit) ==
    IF onlyCommit
    THEN <<"getPublishableFiles", "updateFilesInRepo", "add", "commit">>
    ELSE <<"pull", "getPublishableFiles", "updateFilesInRepo", "add", "commit", "push">>

\* variant: updateFilesInRepo that copies first
updateFilesInRepoStepsCopyFirst == <<"copyFilesToRepo", "cleanupRepo">>

\* updateFilesInRepo: cleanupRepo, then copyFilesToRepo
updateFilesInRepoSteps == <<"cleanupRepo", "copyFilesToRepo">>

\* the code that runs without awaiting: entering updateFilesInRepo, cleanupRepo
\* and copyFilesToRepo, and returning from updateFilesInRepo
RECURSIVE Settle(_)
Settle(op) ==
    IF op.todo = <<>> THEN op
    ELSE LET kind == Head(op.todo).kind
             rest == Tail(op.todo)
         IN  CASE kind = "updateFilesInRepo" ->
                    Settle([op EXCEPT !.todo =
                        [i \in 1..Len(updateFilesInRepoSteps) |->
                            StepOf(updateFilesInRepoSteps[i])]
                        \o <<StepOf("reconciled")>> \o rest])
               [] kind = "cleanupRepo" ->
                    [op EXCEPT !.todo = <<StepOf("scan")>> \o rest]
               [] kind = "copyFilesToRepo" ->
                    Settle([op EXCEPT !.todo =
                        [i \in 1..Len(op.files) |-> StepAt("write", op.files[i])] \o rest])
               [] kind = "reconciled" ->
                    Settle([op EXCEPT !.log = Append(@, Event("reconciled", TRUE)),
                                      !.todo = rest])
               [] OTHER -> op

\* publishNotes(onlyCommit, skipPreview) up to its first await
publishNotes(onlyCommit, skipPreview) ==
    IF ~skipPreview /\ settings.showPreviewBeforePublishing
    THEN [IdleOp EXCEPT !.pc = "preview"]
    ELSE IF settings.repoBranch = <<>>
         THEN [IdleOp EXCEPT !.pc = "done"]
         ELSE Settle([IdleOp EXCEPT
                  !.pc = "run", !.onlyCommit = onlyCommit,
                  !.todo = [i \in 1..Len(publishNotesSteps(onlyCommit)) |->
                               StepOf(publishNotesSteps(onlyCommit)[i])]])

\* the clock at the next edit: time has passed since the last event, or not
Times == {now, now + 1}

FsFault(op) == \E i \in 1..Len(op.log) :
    op.log[i].ev \in {"scan", "delete", "write"} /\ ~op.log[i].ok

Reconciled(op) == \E i \in 1..Len(op.log) : op.log[i].ev = "reconciled"

\* the slot `s` takes the step that leaves its call as `op`
StepTo(s, op) ==
    LET settled == Settle(op)
    IN  /\ ops' = [ops EXCEPT ![s] = settled]
        /\ synced' = IF Reconciled(settled) /\ ~Reconciled(ops[s])
                     THEN ~FsFault(settled)
                     ELSE synced

Running(s, kind) ==
    /\ ops[s].pc = "run"
    /\ ops[s].todo # <<>>
    /\ Head(ops[s].todo).kind = kind

\* one operation in flight at a time; the lowest slot is used
CanStart(s) ==
    /\ \A t \in Slots : ops[t].pc = "idle"
    /\ \A t \in Slots : t >= s

\* the command and the ribbon icon: publishNotes()
PublishCommand(s) ==
    /\ CanStart(s)
    /\ StepTo(s, publishNotes(FALSE, FALSE))
    /\ UNCHANGED <<critVars, flightVars, configVars, fnVars, settings, vault, dest, now, edits>>

\* the command: previewPublishableFiles()
PreviewCommand(s) ==
    /\ CanStart(s)
    /\ StepTo(s, [IdleOp EXCEPT !.pc = "preview"])
    /\ UNCHANGED <<critVars, flightVars, configVars, fnVars, settings, vault, dest, now, edits>>

\* variant: a preview that stages the repository before it asks for its status
PreviewComputeStages(s) ==
    /\ ops[s].pc = "preview"
    /\ \E scanRaises \in BOOLEAN, status \in {"changes", "clean", "raise"} :
          LET publishableFiles == getPublishableFiles
              fileStatuses == getPublishingStatuses(publishableFiles, scanRaises)
              hasUncommittedChanges == status = "changes"
              base == [ops[s] EXCEPT
                          !.files = publishableFiles,
                          !.log = @ \o <<Event("add", TRUE)>>
                                    \o (IF scanRaises THEN <<Event("scan", FALSE)>> ELSE <<>>)
                                    \o <<Event("status", status # "raise")>>]
          IN  StepTo(s,
                   IF status = "raise" THEN [base EXCEPT !.pc = "failed"]
                   ELSE IF Len(fileStatuses) = 0 /\ ~hasUncommittedChanges
                        THEN [base EXCEPT !.pc = "done"]
                        ELSE [base EXCEPT !.pc = "modal",
                                          !.fileStatuses = fileStatuses,
                                          !.hasUncommittedChanges = hasUncommittedChanges,
                                          !.syncedAtPreview = synced /\ ~scanRaises])
    /\ UNCHANGED <<critVars, flightVars, configVars, fnVars, settings, vault, dest, now, edits>>

\* previewPublishableFiles: candidates, statuses, git status, then the modal
PreviewCompute(s) ==
    /\ ops[s].pc = "preview"
    /\ \E scanRaises \in BOOLEAN, status \in {"changes", "clean", "raise"} :
          LET publishableFiles == getPublishableFiles
              fileStatuses == getPublishingStatuses(publishableFiles, scanRaises)
              hasUncommittedChanges == status = "changes"
              base == [ops[s] EXCEPT
                          !.files = publishableFiles,
                          !.log = @ \o (IF scanRaises THEN <<Event("scan", FALSE)>> ELSE <<>>)
                                    \o <<Event("status", status # "raise")>>]
          IN  StepTo(s,
                   IF status = "raise" THEN [base EXCEPT !.pc = "failed"]
                   ELSE IF Len(fileStatuses) = 0 /\ ~hasUncommittedChanges
                        THEN [base EXCEPT !.pc = "done"]
                        ELSE [base EXCEPT !.pc = "modal",
                                          !.fileStatuses = fileStatuses,
                                          !.hasUncommittedChanges = hasUncommittedChanges,
                                          !.syncedAtPreview = synced /\ ~scanRaises])
    /\ UNCHANGED <<critVars, flightVars, configVars, fnVars, settings, vault, dest, now, edits>>

\* PublishPreviewModal.onOpen: Publish and Commit are shown when something changed
ButtonsShown(op) ==
    \/ \E i \in 1..Len(op.fileStatuses) : op.fileStatuses[i].status # "unmodified"
    \/ op.hasUncommittedChanges

ModalPublish(s) ==
    /\ ops[s].pc = "modal"
    /\ ButtonsShown(ops[s])
    /\ StepTo(s, publishNotes(FALSE, TRUE))
    /\ UNCHANGED <<critVars, flightVars, configVars, fnVars, settings, vault, dest, now, edits>>

ModalCommit(s) ==
    /\ ops[s].pc = "modal"
    /\ ButtonsShown(ops[s])
    /\ StepTo(s, publishNotes(TRUE, TRUE))
    /\ UNCHANGED <<critVars, flightVars, configVars, fnVars, settings, vault, dest, now, edits>>

\* Cancel closes the modal: nothing else runs, the call has nothing left to do
ModalCancel(s) ==
    /\ ops[s].pc = "modal"
    /\ StepTo(s, [ops[s] EXCEPT !.pc = "done"])
    /\ UNCHANGED <<critVars, flightVars, configVars, fnVars, settings, vault, dest, now, edits>>

\* variant: a GitHelper call whose raise is swallowed, the steps after it still run
GitCallContinue(s, cmd) ==
    /\ Running(s, cmd)
    /\ \E ok \in BOOLEAN :
          StepTo(s, [ops[s] EXCEPT !.log = Append(@, Event(cmd, ok)), !.todo = Tail(@)])
    /\ UNCHANGED <<critVars, flightVars, configVars, fnVars, settings, vault, dest, now, edits>>

\* a GitHelper call: it returns, or raises (pull: also the merge-conflict Error)
\* and publishNotes leaves its try block
GitCall(s, cmd) ==
    /\ Running(s, cmd)
    /\ \E ok \in BOOLEAN :
          StepTo(s,
               IF ok
               THEN [ops[s] EXCEPT !.log = Append(@, Event(cmd, TRUE)), !.todo = Tail(@)]
               ELSE [ops[s] EXCEPT !.log = Append(@, Event(cmd, FALSE)), !.todo = <<>>,
                                   !.pc = "failed"])
    /\ UNCHANGED <<critVars, flightVars, configVars, fnVars, settings, vault, dest, now, edits>>

Pull(s) == GitCall(s, "pull")

Add(s) == GitCall(s, "add")

Commit(s) == GitCall(s, "commit")

Push(s) == GitCall(s, "push")

\* variant: the confirmed publish reconciles the set the preview computed
GetPublishableCached(s) ==
    /\ Running(s, "getPublishableFiles")
    /\ LET previewed == SelectSeq(ops[s].fileStatuses, LAMBDA r : r.status # "deleted")
       IN  StepTo(s, [ops[s] EXCEPT
                  !.files = IF ops[s].fileStatuses # <<>>
                            THEN [i \in 1..Len(previewed) |-> previewed[i].path]
                            ELSE getPublishableFiles,
                  !.todo = Tail(@)])
    /\ UNCHANGED <<critVars, flightVars, configVars, fnVars, settings, vault, dest, now, edits>>

GetPublishable(s) ==
    /\ Running(s, "getPublishableFiles")
    /\ StepTo(s, [ops[s] EXCEPT !.files = getPublishableFiles, !.todo = Tail(@)])
    /\ UNCHANGED <<critVars, flightVars, configVars, fnVars, settings, vault, dest, now, edits>>

\* cleanupRepo up to its loop
Scan(s) ==
    /\ Running(s, "scan")
    /\ \E scanRaises \in BOOLEAN :
          LET stale == StalePaths(ops[s].files, scanRaises)
          IN  StepTo(s, [ops[s] EXCEPT
                     !.todo = [i \in 1..Len(stale) |-> StepAt("delete", stale[i])] \o Tail(@),
                     !.log = IF scanRaises THEN Append(@, Event("scan", FALSE)) ELSE @])
    /\ UNCHANGED <<critVars, flightVars, configVars, fnVars, settings, vault, dest, now, edits>>

\* deleteFileFromRepo: a raise of access or unlink is swallowed
DeleteOne(s) ==
    /\ Running(s, "delete")
    /\ LET path == Head(ops[s].todo).path
       IN  \E ok \in BOOLEAN :
              /\ dest' = IF ok /\ dest[path].exists
                         THEN [dest EXCEPT ![path] = Absent]
                         ELSE dest
              /\ StepTo(s, [ops[s] EXCEPT
                     !.todo = Tail(@),
                     !.log = IF ok /\ ~dest[path].exists THEN @
                             ELSE Append(@, Event("delete", ok))])
    /\ UNCHANGED <<critVars, flightVars, configVars, fnVars, settings, vault, now, edits>>

\* copyFileToRepo: a raise leaves copyFilesToRepo, updateFilesInRepo and the try
CopyOne(s) ==
    /\ Running(s, "write")
    /\ LET path == Head(ops[s].todo).path
       IN  \E ok \in BOOLEAN :
              /\ dest' = IF ok
                         THEN [dest EXCEPT ![path] =
                                  [exists |-> TRUE,
                                   content |-> writeFile(processContent(
                                                   read(vault[path].content), path)),
                                   mtime |-> now]]
                         ELSE dest
              /\ StepTo(s,
                   IF ok
                   THEN [ops[s] EXCEPT !.todo = Tail(@),
                                       !.log = Append(@, Event("write", TRUE))]
                   ELSE [ops[s] EXCEPT !.todo = <<>>, !.pc = "failed",
                                       !.log = Append(@, Event("write", FALSE))])
    /\ UNCHANGED <<critVars, flightVars, configVars, fnVars, settings, vault, now, edits>>

\* the catch block: new FailureModal(...).open()
Catch(s) ==
    /\ ops[s].pc = "failed"
    /\ StepTo(s, [ops[s] EXCEPT !.pc = "surfaced",
                                !.log = Append(@, Event("FailureModal", TRUE))])
    /\ UNCHANGED <<critVars, flightVars, configVars, fnVars, settings, vault, dest, now, edits>>

\* the call has returned
Finish(s) ==
    /\ \/ ops[s].pc \in {"done", "surfaced"}
       \/ ops[s].pc = "run" /\ ops[s].todo = <<>>
    /\ StepTo(s, IdleOp)
    /\ UNCHANGED <<critVars, flightVars, configVars, fnVars, settings, vault, dest, now, edits>>

\* the user edits a note in the vault, between two operations or while the
\* preview modal is open
EditNote(path, content) ==
    /\ edits < MaxEdits
    /\ \A s \in Slots : ops[s].pc \in {"idle", "modal"}
    /\ IsMarkdown(path)
    /\ vault[path].content # content
    /\ \E t \in Times :
          /\ vault' = [vault EXCEPT ![path].content = content, ![path].mtime = t]
          /\ now' = t
    /\ edits' = edits + 1
    /\ synced' = FALSE
    /\ UNCHANGED <<critVars, flightVars, configVars, fnVars, settings, dest, ops>>

SettingsChoices ==
    {[criterion |-> TagCriterionDefault(<<"p">>), showPreviewBeforePublishing |-> TRUE,
      publishAttachments |-> TRUE, extraFilePatterns |-> <<>>, repoBranch |-> <<"m">>],
     [criterion |-> TagCriterionDefault(<<"p">>), showPreviewBeforePublishing |-> FALSE,
      publishAttachments |-> FALSE, extraFilePatterns |-> <<"*", ".", "p">>,
      repoBranch |-> <<"m">>],
     [criterion |-> TagCriterionDefault(<<"p">>), showPreviewBeforePublishing |-> FALSE,
      publishAttachments |-> TRUE, extraFilePatterns |-> <<>>, repoBranch |-> <<>>]}

InitialContent(path) ==
    IF path = Image THEN ContentImage
    ELSE IF path \in VaultPaths THEN ContentPublic
    ELSE ContentOld

SyncInit ==
    /\ settings \in SettingsChoices
    /\ vault = [q \in VaultPaths |->
                  [content |-> InitialContent(q), mtime |-> 0, hasMetadata |-> TRUE]]
    /\ \E present \in SUBSET DestPaths :
          dest = [q \in DestPaths |->
                     IF q \in present
                     THEN [exists |-> TRUE, content |-> ContentOld, mtime |-> 0]
                     ELSE Absent]
    /\ now = 0
    /\ edits = 0
    /\ synced = FALSE
    /\ ops = [s \in Slots |-> IdleOp]

\* the harness is not part of this specification
CritIdle ==
    /\ tree = NoData
    /\ file = NoData
    /\ serialized = NoData
    /\ restored = NoData
    /\ result = "none"
    /\ result2 = "none"
    /\ publishable = "none"

Init == SyncInit /\ CritIdle /\ ConfigIdle /\ FnIdle /\ FlightIdle

Next ==
    \/ \E s \in Slots : PublishCommand(s)
    \/ \E s \in Slots : PreviewCommand(s)
    \/ \E s \in Slots : PreviewCompute(s)
    \/ \E s \in Slots : ModalPublish(s)
    \/ \E s \in Slots : ModalCommit(s)
    \/ \E s \in Slots : ModalCancel(s)
    \/ \E s \in Slots : Pull(s)
    \/ \E s \in Slots : GetPublishable(s)
    \/ \E s \in Slots : Scan(s)
    \/ \E s \in Slots : DeleteOne(s)
    \/ \E s \in Slots : CopyOne(s)
    \/ \E s \in Slots : Add(s)
    \/ \E s \in Slots : Commit(s)
    \/ \E s \in Slots : Push(s)
    \/ \E s \in Slots : Catch(s)
    \/ \E s \in Slots : Finish(s)
    \/ \E q \in VaultPaths, c \in NoteContents : EditNote(q, c)

Spec == Init /\ [][Next]_vars

----------------------------------------------------------------------------
(* Properties of the publish flow, checked under Spec.                      *)

GitCmds == {"pull", "add", "commit", "push"}

\* a path below a dot-prefixed directory
InDotDir(path) == \E i \in 1..(Len(path) - 1) : startsWith(path[i], <<".">>)

\* the call in slot s has returned from updateFilesInRepo and no scan, unlink
\* or write of it has raised
ReconciledClean(s) == Reconciled(ops[s]) /\ ~FsFault(ops[s])

HasEvent(op, ev, ok) == \E i \in 1..Len(op.log) : op.log[i] = Event(ev, ok)

GitFailed(op) == \E i \in 1..Len(op.log) : op.log[i].ev \in GitCmds /\ ~op.log[i].ok

\* the destination as a set of files with their contents, write times left out
Published == {<<q, dest[q].content>> : q \in {r \in DestPaths : dest[r].exists}}

(* C2: after updateFilesInRepo(candidates) has completed with no filesystem *)
(* failure, every candidate exists in the destination at its own relative   *)
(* path with the content of the source, and no markdown file outside        *)
(* dot-prefixed directories whose path is not a candidate is left there.    *)
ReconcilePostcondition ==
    \A s \in Slots :
        ReconciledClean(s) =>
            /\ \A q \in Range(ops[s].files) :
                   dest[q].exists /\ dest[q].content = vault[q].content
            /\ \A q \in DestPaths :
                   (IsMarkdown(q) /\ ~InDotDir(q) /\ q \notin Range(ops[s].files))
                       => ~dest[q].exists

(* C3, as stated: after updateFilesInRepo(candidates) has completed without *)
(* failure, the files present in the destination (outside dot-prefixed      *)
(* directories), markdown or not, are exactly the candidate paths.          *)
DestinationEqualsCandidates ==
    \A s \in Slots :
        ReconciledClean(s) =>
            {q \in DestPaths : dest[q].exists /\ ~InDotDir(q)} = Range(ops[s].files)

(* C3, as the code has it: after updateFilesInRepo(candidates) has          *)
(* completed without failure, the markdown files present in the destination *)
(* outside dot-prefixed directories are exactly the markdown candidates;    *)
(* and the only files a step ever removes are markdown files outside        *)
(* dot-prefixed directories that are not candidates of the running call, so *)
(* other files and everything under a dot-prefixed directory stay.          *)
MarkdownEqualsCandidates ==
    \A s \in Slots :
        ReconciledClean(s) =>
            {q \in DestPaths : dest[q].exists /\ IsMarkdown(q) /\ ~InDotDir(q)}
                = {q \in Range(ops[s].files) : IsMarkdown(q)}

OnlyStaleMarkdownRemoved ==
    \A q \in DestPaths :
        (dest[q].exists /\ ~dest'[q].exists) =>
            /\ IsMarkdown(q)
            /\ ~InDotDir(q)
            /\ \E s \in Slots : ops[s].pc = "run" /\ q \notin Range(ops[s].files)

ReconcileMatchesMarkdownOnly ==
    []MarkdownEqualsCandidates /\ [][OnlyStaleMarkdownRemoved]_vars

\* a reconcile has completed and a file that is not markdown and not a
\* candidate, and a markdown file under a dot directory, are still there
ReconcileLeftOtherFiles ==
    \E s \in Slots :
        /\ ReconciledClean(s)
        /\ HasEvent(ops[s], "delete", TRUE)
        /\ dest[Image].exists /\ Image \notin Range(ops[s].files)
        /\ dest[GitNote].exists

(* C4: reconcile is idempotent.  `synced` holds from the return of an       *)
(* updateFilesInRepo in which nothing raised until the next change of a     *)
(* source file.  While it holds, the statuses a preview computes contain no *)
(* new, modified or deleted record, and no step, those of a second          *)
(* updateFilesInRepo included, changes which files the destination holds or *)
(* what they contain.                                                       *)
StatusesCleanWhenSynced ==
    \A s \in Slots :
        (ops[s].pc = "modal" /\ ops[s].syncedAtPreview) =>
            \A i \in 1..Len(ops[s].fileStatuses) :
                ops[s].fileStatuses[i].status = "unmodified"

NoMutationWhenSynced == synced => Published' = Published

ReconcileIdempotent ==
    []StatusesCleanWhenSynced /\ [][NoMutationWhenSynced]_vars

\* a second updateFilesInRepo, with no source change since the first, has
\* scanned and is rewriting the candidates
SecondReconcileWrites ==
    \E s \in Slots :
        /\ synced
        /\ ops[s].pc = "run"
        /\ ~Reconciled(ops[s])
        /\ HasEvent(ops[s], "write", TRUE)

(* C5: within one updateFilesInRepo every deletion comes before the first   *)
(* copy: no write is followed by a deletion, and once a file has been       *)
(* written no deletion is left to do.                                       *)
DeletionsBeforeCopies ==
    \A s \in Slots :
        /\ \A i, j \in 1..Len(ops[s].log) :
               (i < j /\ ops[s].log[i].ev = "write") => ops[s].log[j].ev # "delete"
        /\ (\E i \in 1..Len(ops[s].log) : ops[s].log[i].ev = "write") =>
               \A k \in 1..Len(ops[s].todo) :
                   ops[s].todo[k].kind \notin {"cleanupRepo", "scan", "delete"}

\* a call has deleted a stale file and then copied a candidate
DeletedThenCopied ==
    \E s \in Slots : \E i, j \in 1..Len(ops[s].log) :
        /\ i < j
        /\ ops[s].log[i] = Event("delete", TRUE)
        /\ ops[s].log[j] = Event("write", TRUE)

(* C6, as stated: no adapter operation (pull, add, commit, push) happens    *)
(* before updateFilesInRepo has finished.                                   *)
AdapterOnlyAfterReconcile ==
    \A s \in Slots : \A i \in 1..Len(ops[s].log) :
        ops[s].log[i].ev \in GitCmds =>
            \E j \in 1..(i - 1) : ops[s].log[j].ev = "reconciled"

(* C6, as the code has it: add, commit and push happen only after           *)
(* updateFilesInRepo has finished; pull (publish only) happens before it    *)
(* starts, as the first thing the call does.                                *)
StagingOnlyAfterReconcile ==
    \A s \in Slots : \A i \in 1..Len(ops[s].log) :
        /\ ops[s].log[i].ev \in {"add", "commit", "push"} =>
               \E j \in 1..(i - 1) : ops[s].log[j].ev = "reconciled"
        /\ ops[s].log[i].ev = "pull" => i = 1

\* a publish has pulled, reconciled and staged
PulledReconciledStaged ==
    \E s \in Slots :
        /\ Len(ops[s].log) >= 3
        /\ ops[s].log[1] = Event("pull", TRUE)
        /\ HasEvent(ops[s], "write", TRUE)
        /\ ops[s].log[Len(ops[s].log)] = Event("add", TRUE)

(* C7: a publish operation aborts at the first adapter failure.  Once pull, *)
(* add, commit or push has raised, the call has nothing left to do, the     *)
(* only thing that follows is the failure modal, opened once, and no step   *)
(* changes the destination; a publish whose pull has not returned yet, or   *)
(* has raised, has changed nothing in the destination.                      *)
AbortedAfterAdapterFailure ==
    \A s \in Slots : \A i \in 1..Len(ops[s].log) :
        (ops[s].log[i].ev \in GitCmds /\ ~ops[s].log[i].ok) =>
            /\ ops[s].todo = <<>>
            /\ ops[s].pc \in {"failed", "surfaced"}
            /\ Len(ops[s].log) = (IF ops[s].pc = "surfaced" THEN i + 1 ELSE i)
            /\ ops[s].pc = "surfaced" => ops[s].log[i + 1] = Event("FailureModal", TRUE)

DestinationKeptAfterAdapterFailure ==
    \A s \in Slots :
        (\/ GitFailed(ops'[s])
         \/ ops'[s].pc = "run" /\ ~ops'[s].onlyCommit /\ ops'[s].log = <<>>)
            => dest' = dest

RECURSIVE PipelineEvents(_)
PipelineEvents(log) ==
    IF log = <<>> THEN <<>>
    ELSE (IF Head(log).ev \in GitCmds \cup {"reconciled"} THEN <<Head(log)>> ELSE <<>>)
         \o PipelineEvents(Tail(log))

PublishOrder == <<"pull", "reconciled", "add", "commit", "push">>

CommitOnlyOrder == <<"reconciled", "add", "commit">>

\* the events are the first ones of `order`, and all but the last returned
FollowsOrder(events, order) ==
    /\ Len(events) <= Len(order)
    /\ \A i \in 1..Len(events) :
           /\ events[i].ev = order[i]
           /\ i < Len(events) => events[i].ok

(* C8: a commit-only call never invokes push or pull: it reconciles, adds   *)
(* and commits, in this order; a publish call invokes pull, reconcile, add, *)
(* commit, push, in this order; each is invoked only after the one before   *)
(* it returned without error.                                               *)
PipelineOrder ==
    \A s \in Slots :
        FollowsOrder(PipelineEvents(ops[s].log),
                     IF ops[s].onlyCommit THEN CommitOnlyOrder ELSE PublishOrder)

\* a commit-only call has reconciled, staged and committed, and has returned
CommitOnlyCommitted ==
    \E s \in Slots :
        /\ ops[s].onlyCommit
        /\ ops[s].pc = "run"
        /\ ops[s].todo = <<>>
        /\ HasEvent(ops[s], "commit", TRUE)
        /\ HasEvent(ops[s], "write", TRUE)

(* C9: a preview and its cancellation have no side effect.  From the start  *)
(* of previewPublishableFiles until the modal is closed by Cancel the call  *)
(* invokes nothing but the destination scan and the adapter's status query, *)
(* and no step taken meanwhile changes the destination.                     *)
PreviewInvokesNothing ==
    \A s \in Slots :
        ops[s].pc \in {"preview", "modal", "done"} =>
            \A i \in 1..Len(ops[s].log) : ops[s].log[i].ev \in {"scan", "status"}

PreviewKeepsDestination ==
    (\E s \in Slots : ops'[s].pc \in {"preview", "modal", "done"}) => dest' = dest

PreviewHasNoSideEffects ==
    []PreviewInvokesNothing /\ [][PreviewKeepsDestination]_vars

\* a preview that showed changes to publish has been cancelled
PreviewCancelled ==
    \E s \in Slots :
        /\ ops[s].pc = "done"
        /\ ButtonsShown(ops[s])
        /\ \E i \in 1..Len(ops[s].fileStatuses) : ops[s].fileStatuses[i].status = "deleted"

----------------------------------------------------------------------------
(* Configuration: loadSettings, the criterion editor and saveSettings.      *)
(* Criterion objects live in `heap`, a sequence indexed by object id: a     *)
(* leaf object holds its fields, a composite the ids of its children, so    *)
(* that two references to one object and two equal objects differ.          *)

\* the tree that the object `id` and the objects below it make up
RECURSIVE treeOf(_, _)
treeOf(h, id) ==
    LET o == h[id]
    IN  CASE o.type \in {"And", "Or"} ->
                [type |-> o.type,
                 criteria |-> [i \in 1..Len(o.criteria) |-> treeOf(h, o.criteria[i])]]
          [] o.type = "Not" -> NotCriterion(treeOf(h, o.criterion))
          [] OTHER -> o

\* new XCriterion(...) for every node of the tree t, children first:
\* [heap |-> the heap with the new objects, id |-> the object of the root]
RECURSIVE construct(_, _)
RECURSIVE constructAll(_, _)
construct(h, t) ==
    CASE t.type \in {"And", "Or"} ->
            LET kids == constructAll(h, t.criteria)
            IN  [heap |-> Append(kids.heap, [type |-> t.type, criteria |-> kids.ids]),
                 id |-> Len(kids.heap) + 1]
      [] t.type = "Not" ->
            LET kid == construct(h, t.criterion)
            IN  [heap |-> Append(kid.heap, [type |-> "Not", criterion |-> kid.id]),
                 id |-> Len(kid.heap) + 1]
      [] OTHER -> [heap |-> Append(h, t), id |-> Len(h) + 1]

constructAll(h, ts) ==
    IF ts = <<>> THEN [heap |-> h, ids |-> <<>>]
    ELSE LET first == construct(h, Head(ts))
             rest == constructAll(first.heap, Tail(ts))
         IN  [heap |-> rest.heap, ids |-> <<first.id>> \o rest.ids]

\* DEFAULT_SETTINGS.criterion, with the patterns cut down to the model's
\* pattern language
DefaultCriterion ==
    NotCriterion(OrCriterion(<<
        PathCriterion(<<"*", "*", "/", "_", "*", "\n", "_", "*">>, "matches glob"),
        TagCriterionDefault(<<"t", "o", "d", "o">>),
        TitleCriterion(<<"U", "*">>, "matches glob"),
        TitleCriterion(<<"^", "1", "$">>, "matches regex")>>))

\* a serialized node of a type that no class is registered for
UnknownNode == [type |-> "Folder"]

\* the serialized trees a data.json can hold: written by saveSettings, or
\* holding a node of an unregistered type at the root, below And / Or,
\* below Not, or two levels down
SavedCriteria ==
    {serialize(TagCriterion(<<"p">>, "equals")),
     serialize(AndCriterion(<<TagCriterionDefault(<<"p">>),
                              FrontmatterCriterion("status", <<"d">>)>>)),
     serialize(NotCriterion(OrCriterion(<<ContentCriterion(<<"x">>)>>))),
     UnknownNode,
     [type |-> "And", criteria |-> <<serialize(TagCriterionDefault(<<"p">>)), UnknownNode>>],
     [type |-> "Or", criteria |-> <<UnknownNode, serialize(TagCriterionDefault(<<"p">>))>>],
     [type |-> "Not", criterion |-> UnknownNode],
     [type |-> "Not", criterion |->
         [type |-> "And",
          criteria |-> <<serialize(ContentCriterion(<<"x">>)), UnknownNode>>]]}

\* loadData(): null, a record without criterion, a record with one
SavedData ==
    {NoData, [type |-> "data", hasCriterion |-> FALSE, criterion |-> NoData]}
    \cup {[type |-> "data", hasCriterion |-> TRUE, criterion |-> c] : c \in SavedCriteria}

\* the heap once the module is loaded: the objects of DEFAULT_SETTINGS.criterion
DefaultHeap == construct(<<>>, DefaultCriterion).heap

DefaultCriterionRef == construct(<<>>, DefaultCriterion).id

EditorClosed == [open |-> FALSE, rootCriterion |-> 0, steps |-> 0, sessions |-> 0]

ConfigInit ==
    /\ savedData \in SavedData
    /\ heap = DefaultHeap
    /\ liveCriterion = 0
    /\ editor = EditorClosed
    /\ plugin = "unloaded"
    /\ CritIdle
    /\ SyncIdle
    /\ FnIdle
    /\ FlightIdle

\* onload: loadSettings, then the rest of onload.  settings is a shallow copy
\* of DEFAULT_SETTINGS before data.criterion is deserialized; a raise of
\* Criterion.deserialize leaves loadSettings and onload
Onload ==
    /\ plugin = "unloaded"
    /\ IF savedData # NoData /\ savedData.hasCriterion
       THEN LET restoredTree == deserialize(savedData.criterion)
            IN  IF restoredTree = UnknownTypeError
                THEN /\ liveCriterion' = DefaultCriterionRef
                     /\ plugin' = "failed"
                     /\ heap' = heap
                ELSE /\ liveCriterion' = construct(heap, restoredTree).id
                     /\ heap' = construct(heap, restoredTree).heap
                     /\ plugin' = "loaded"
       ELSE /\ liveCriterion' = DefaultCriterionRef
            /\ plugin' = "loaded"
            /\ heap' = heap
    /\ UNCHANGED <<critVars, flightVars, syncVars, fnVars, savedData, editor>>

\* the objects that make up the tree below the object `id`
RECURSIVE reach(_, _)
reach(h, id) ==
    LET o == h[id]
    IN  {id} \cup
        CASE o.type \in {"And", "Or"} ->
                UNION {reach(h, o.criteria[i]) : i \in 1..Len(o.criteria)}
          [] o.type = "Not" -> reach(h, o.criterion)
          [] OTHER -> {}

\* CriterionEditorModal.createDefaultCriterionByType, with the patterns cut
\* down to the model's pattern language
createDefaultCriterionByType(type) ==
    CASE type = "Tag" -> TagCriterionDefault(<<"p">>)
      [] type = "Frontmatter" -> FrontmatterCriterion("public", <<"t">>)
      [] type = "Title" -> TitleCriterion(<<"^", ".">>, "matches regex")
      [] type = "Path" -> PathCriterion(<<"*", "*", "/", ".", "*", "\n", "_", "*">>, "matches glob")
      [] type = "Content" -> ContentCriterion(<<"^", ".">>)
      [] type = "And" -> AndCriterion(<<TagCriterionDefault(<<"p">>)>>)
      [] type = "Or" -> OrCriterion(<<TagCriterionDefault(<<"p">>)>>)
      [] type = "Not" -> NotCriterion(TagCriterionDefault(<<"b">>))

\* what the user can type into a text field of the editor
TypedText == {<<"P">>, <<"(">>}

\* variant: the modal keeps the object it is given
cloneForEditorAlias(h, id) == [heap |-> h, id |-> id]

\* the constructor of CriterionEditorModal: the object the modal is given
\* is cloned through serialize and deserialize
cloneForEditor(h, id) == construct(h, deserialize(serialize(treeOf(h, id))))

\* settings tab, "Edit criterion": new CriterionEditorModal(app,
\* settings.criterion, onSave).open()
OpenEditor ==
    /\ plugin = "loaded"
    /\ ~editor.open
    /\ editor.sessions < MaxSessions
    /\ LET clone == cloneForEditor(heap, liveCriterion)
       IN  /\ heap' = clone.heap
           /\ editor' = [editor EXCEPT !.open = TRUE, !.rootCriterion = clone.id,
                                       !.sessions = @ + 1]
    /\ UNCHANGED <<critVars, flightVars, syncVars, fnVars, savedData, liveCriterion, plugin>>

\* the editor is open and one more change fits the bound
CanEdit == editor.open /\ editor.steps < MaxSteps

Stepped == [editor EXCEPT !.steps = @ + 1]

EditorFrame == UNCHANGED <<critVars, flightVars, syncVars, fnVars, savedData, liveCriterion, plugin>>

\* the type dropdown of a node: a default criterion of the chosen type
\* replaces the node in the root slot, in parent.criteria or in
\* parent.criterion
ChangeType ==
    /\ CanEdit
    /\ \E id \in reach(heap, editor.rootCriterion), value \in CriterionType :
        /\ value # heap[id].type
        /\ LET newCriterion == construct(heap, createDefaultCriterionByType(value))
               h == newCriterion.heap
           IN  IF id = editor.rootCriterion
               THEN /\ editor' = [Stepped EXCEPT !.rootCriterion = newCriterion.id]
                    /\ heap' = h
               ELSE /\ editor' = Stepped
                    /\ \E parent \in reach(heap, editor.rootCriterion) :
                        \/ /\ heap[parent].type \in {"And", "Or"}
                           /\ \E index \in 1..Len(heap[parent].criteria) :
                                /\ heap[parent].criteria[index] = id
                                /\ heap' = [h EXCEPT ![parent].criteria[index] = newCriterion.id]
                        \/ /\ heap[parent].type = "Not"
                           /\ heap[parent].criterion = id
                           /\ heap' = [h EXCEPT ![parent].criterion = newCriterion.id]
    /\ EditorFrame

\* "Property name" of a Frontmatter node: criterion.key = v
SetKey ==
    /\ CanEdit
    /\ \E id \in reach(heap, editor.rootCriterion) :
        /\ heap[id].type = "Frontmatter"
        /\ heap' = [heap EXCEPT ![id].key = "draft"]
    /\ editor' = Stepped
    /\ EditorFrame

\* "Property value" of a Frontmatter node: criterion.value = v
SetValue ==
    /\ CanEdit
    /\ \E id \in reach(heap, editor.rootCriterion), v \in TypedText :
        /\ heap[id].type = "Frontmatter"
        /\ heap' = [heap EXCEPT ![id].value = v]
    /\ editor' = Stepped
    /\ EditorFrame

\* the match-mode dropdown of a Tag, Title or Path node: criterion.matchMode = v
SetMatchMode ==
    /\ CanEdit
    /\ \E id \in reach(heap, editor.rootCriterion) :
        \E v \in IF heap[id].type = "Tag" THEN TagMatchMode
                 ELSE IF heap[id].type \in {"Title", "Path"} THEN TextMatchMode
                 ELSE {} :
            /\ v # heap[id].matchMode
            /\ heap' = [heap EXCEPT ![id].matchMode = v]
    /\ editor' = Stepped
    /\ EditorFrame

\* the text field of a Tag node: criterion.tag = v
SetTag ==
    /\ CanEdit
    /\ \E id \in reach(heap, editor.rootCriterion), v \in TypedText :
        /\ heap[id].type = "Tag"
        /\ heap' = [heap EXCEPT ![id].tag = v]
    /\ editor' = Stepped
    /\ EditorFrame

\* the pattern field of a Title or Path node: criterion.pattern = v
SetPattern ==
    /\ CanEdit
    /\ \E id \in reach(heap, editor.rootCriterion), v \in TypedText :
        /\ heap[id].type \in {"Title", "Path"}
        /\ heap' = [heap EXCEPT ![id].pattern = v]
    /\ editor' = Stepped
    /\ EditorFrame

\* the regex field of a Content node: criterion.regex = v
SetRegex ==
    /\ CanEdit
    /\ \E id \in reach(heap, editor.rootCriterion), v \in TypedText :
        /\ heap[id].type = "Content"
        /\ heap' = [heap EXCEPT ![id].regex = v]
    /\ editor' = Stepped
    /\ EditorFrame

\* Array.prototype.splice(i, 1)
splice1(arr, i) == SubSeq(arr, 1, i - 1) \o SubSeq(arr, i + 1, Len(arr))

\* "Remove criterion" of a child of an And / Or node: criteria.splice(i, 1)
RemoveSub ==
    /\ CanEdit
    /\ \E id \in reach(heap, editor.rootCriterion) :
        /\ heap[id].type \in {"And", "Or"}
        /\ \E i \in 1..Len(heap[id].criteria) :
            heap' = [heap EXCEPT ![id].criteria = splice1(@, i)]
    /\ editor' = Stepped
    /\ EditorFrame

\* "Add sub-criterion" of an And / Or node: criteria.push(default Frontmatter)
AddSub ==
    /\ CanEdit
    /\ \E id \in reach(heap, editor.rootCriterion) :
        /\ heap[id].type \in {"And", "Or"}
        /\ LET sub == construct(heap, createDefaultCriterionByType("Frontmatter"))
           IN  heap' = [sub.heap EXCEPT ![id].criteria = Append(@, sub.id)]
    /\ editor' = Stepped
    /\ EditorFrame

\* saveSettings: saveData({...settings, criterion: settings.criterion.serialize()})
saveSettings(h, id) ==
    [type |-> "data", hasCriterion |-> TRUE, criterion |-> serialize(treeOf(h, id))]

\* "Save": onSave(rootCriterion), which is settings.criterion = updatedCriterion
\* and saveSettings(), then close()
EditorSave ==
    /\ editor.open
    /\ liveCriterion' = editor.rootCriterion
    /\ savedData' = saveSettings(heap, editor.rootCriterion)
    /\ editor' = [editor EXCEPT !.open = FALSE, !.rootCriterion = 0]
    /\ UNCHANGED <<critVars, flightVars, syncVars, fnVars, heap, plugin>>

\* "Cancel": close()
EditorCancel ==
    /\ editor.open
    /\ editor' = [editor EXCEPT !.open = FALSE, !.rootCriterion = 0]
    /\ UNCHANGED <<critVars, flightVars, syncVars, fnVars, savedData, heap, liveCriterion, plugin>>

ConfigNext ==
    \/ Onload
    \/ OpenEditor
    \/ ChangeType
    \/ SetKey
    \/ SetValue
    \/ SetMatchMode
    \/ SetTag
    \/ SetPattern
    \/ SetRegex
    \/ RemoveSub
    \/ AddSub
    \/ EditorSave
    \/ EditorCancel

SpecConfig == ConfigInit /\ [][ConfigNext]_vars

----------------------------------------------------------------------------
(* Properties of the configuration, checked under SpecConfig *)

\* the serialized tree holds a node of an unregistered type, at any depth
RECURSIVE HasUnknown(_)
HasUnknown(data) ==
    \/ data.type \notin CriterionType
    \/ /\ data.type \in {"And", "Or"}
       /\ \E i \in 1..Len(data.criteria) : HasUnknown(data.criteria[i])
    \/ /\ data.type = "Not"
       /\ HasUnknown(data.criterion)

\* the tree t has a node of the same type for every node of the serialized tree
RECURSIVE SameShape(_, _)
SameShape(data, t) ==
    /\ t.type = data.type
    /\ data.type \in {"And", "Or"} =>
          /\ Len(t.criteria) = Len(data.criteria)
          /\ \A i \in 1..Len(data.criteria) : SameShape(data.criteria[i], t.criteria[i])
    /\ data.type = "Not" => SameShape(data.criterion, t.criterion)

HasSavedCriterion == savedData # NoData /\ savedData.hasCriterion

\* deserialize raises exactly on the trees that hold an unknown type
DeserializeRaisesOnUnknown ==
    HasSavedCriterion =>
        (deserialize(savedData.criterion) = UnknownTypeError
            <=> HasUnknown(savedData.criterion))

\* a load of a tree with an unknown type ends with the plugin failed and
\* settings.criterion the default object; any other load ends with every
\* node of the saved tree restored
LoadAllOrNothing ==
    (plugin = "unloaded" /\ plugin' # "unloaded" /\ HasSavedCriterion) =>
        IF HasUnknown(savedData.criterion)
        THEN /\ plugin' = "failed"
             /\ liveCriterion' = DefaultCriterionRef
             /\ treeOf(heap', liveCriterion') = DefaultCriterion
        ELSE /\ plugin' = "loaded"
             /\ SameShape(savedData.criterion, treeOf(heap', liveCriterion'))

\* after a failed load nothing replaces the default criterion
FailedHoldsDefault ==
    plugin = "failed" =>
        /\ liveCriterion = DefaultCriterionRef
        /\ treeOf(heap, liveCriterion) = DefaultCriterion

(* C11: deserializing a tree that holds an unknown kind at any depth raises *)
(* "Unknown criterion type" and returns no tree; in loadSettings the raise  *)
(* aborts the load, and settings.criterion is never a partially built tree. *)
UnknownTypeAbortsLoad ==
    /\ []DeserializeRaisesOnUnknown
    /\ [][LoadAllOrNothing]_vars
    /\ []FailedHoldsDefault

\* a load failed on a tree whose unknown node is two levels down
LoadAbortedOnNestedUnknown ==
    /\ plugin = "failed"
    /\ HasSavedCriterion
    /\ savedData.criterion.type = "Not"
    /\ savedData.criterion.criterion.type = "And"
    /\ HasUnknown(savedData.criterion)

\* the tree settings.criterion refers to
LiveTree == IF liveCriterion = 0 THEN NoData ELSE treeOf(heap, liveCriterion)

\* the tree the open editor shows
EditedTree == treeOf(heap, editor.rootCriterion)

\* settings.criterion changes only when the plugin loads or an editor closes
LiveChangesOnlyOnClose ==
    (LiveTree' # LiveTree \/ liveCriterion' # liveCriterion) =>
        (plugin = "unloaded" \/ (editor.open /\ ~editor'.open))

\* a step that leaves the editor open is an edit: it changes the edited
\* tree and leaves settings.criterion and the tree below it as they were
EditsKeepLive ==
    (editor.open /\ editor'.open) =>
        /\ liveCriterion' = liveCriterion
        /\ LiveTree' = LiveTree

\* closing the editor either leaves settings.criterion alone (Cancel) or
\* makes it the edited tree, whole, in that one step (Save)
CloseKeepsOrReplaces ==
    (editor.open /\ ~editor'.open) =>
        \/ /\ liveCriterion' = liveCriterion
           /\ LiveTree' = LiveTree
        \/ /\ liveCriterion' = editor.rootCriterion
           /\ LiveTree' = EditedTree

----------------------------------------------------------------------------
(* The functions that select and classify files, applied to a vault, a      *)
(* publishing directory and settings drawn from bounded sets.               *)

PatternExtra == <<"*", ".", "p">>      \* *.p
PatternNotes == <<"d", "/", "*">>      \* d/*

SelectSettings ==
    {[criterion |-> c, showPreviewBeforePublishing |-> TRUE,
      publishAttachments |-> att, extraFilePatterns |-> pat, repoBranch |-> <<"m">>] :
        c \in {TagCriterionDefault(<<"p">>), PathCriterion(<<"d", "/">>, "contains")},
        att \in BOOLEAN,
        pat \in {<<>>, <<" ">>, PatternExtra, PatternNotes}}

\* modification times, in ticks of the clock
Mtimes == {0, 1}

SelectInit ==
    /\ settings \in SelectSettings
    /\ \E contentA \in NoteContents, contentB \in NoteContents, t \in Mtimes,
          meta \in [VaultPaths -> BOOLEAN] :
          vault = [q \in VaultPaths |->
                      [content |-> IF q = NoteA THEN contentA
                                   ELSE IF q = NoteB THEN contentB
                                   ELSE ContentImage,
                       mtime |-> IF q = NoteA THEN t ELSE 0,
                       hasMetadata |-> meta[q]]]
    /\ \E present \in SUBSET DestPaths, t \in Mtimes :
          dest = [q \in DestPaths |->
                     IF q \in present
                     THEN [exists |-> TRUE, content |-> ContentOld,
                           mtime |-> IF q = NoteA THEN t ELSE 0]
                     ELSE Absent]
    /\ now = 0
    /\ edits = 0
    /\ synced = FALSE
    /\ ops = NoData
    /\ CritIdle
    /\ ConfigIdle
    /\ FnIdle
    /\ FlightIdle

Called(fn, arg) == [type |-> "call", fn |-> fn, arg |-> arg]

Returned(value) == [type |-> "return", value |-> value]

SelectFrame == UNCHANGED <<critVars, flightVars, syncVars, configVars>>

\* getFileStatus(file, join(repoPath, file.path)) for a vault file
CallGetFileStatus ==
    /\ call = NoData
    /\ \E q \in VaultPaths :
        /\ call' = Called("getFileStatus", q)
        /\ ret' = Returned(getFileStatus(q, q))
    /\ SelectFrame

\* isFilePublishable(file) for a markdown file of the vault
CallIsFilePublishable ==
    /\ call = NoData
    /\ \E q \in {v \in VaultPaths : IsMarkdown(v)} :
        /\ call' = Called("isFilePublishable", q)
        /\ ret' = Returned(isFilePublishable(settings.criterion, FileRecord(q)))
    /\ SelectFrame

CallGetPublishableFiles ==
    /\ call = NoData
    /\ call' = Called("getPublishableFiles", NoData)
    /\ ret' = Returned(getPublishableFiles)
    /\ SelectFrame

\* getPublishingStatuses(await getPublishableFiles()), the scan raising or not
CallGetPublishingStatuses ==
    /\ call = NoData
    /\ \E scanRaises \in BOOLEAN :
        /\ call' = Called("getPublishingStatuses", scanRaises)
        /\ ret' = Returned(getPublishingStatuses(getPublishableFiles, scanRaises))
    /\ SelectFrame

\* getPublishedMarkdownFiles(), fs.readdir raising on no directory, on the
\* root or on the directory d
CallGetPublishedMarkdownFiles ==
    /\ call = NoData
    /\ \E fault \in {NoFault, FaultAt(<<>>), FaultAt(<<<<"d">>>>)} :
        /\ call' = Called("getPublishedMarkdownFiles", fault)
        /\ ret' = Returned(getPublishedMarkdownFilesFaultAt(fault))
    /\ SelectFrame

SelectNext ==
    \/ CallGetFileStatus
    \/ CallIsFilePublishable
    \/ CallGetPublishableFiles
    \/ CallGetPublishingStatuses
    \/ CallGetPublishedMarkdownFiles

SpecSelect == SelectInit /\ [][SelectNext]_vars

----------------------------------------------------------------------------
(* Properties of selection and classification, checked under SpecSelect *)

HasCalled(fn) == call # NoData /\ call.fn = fn

ScannedMarkdown ==
    {q \in DestPaths : dest[q].exists /\ IsMarkdown(q) /\ ~InDotDir(q)}

RecordsOf(records, path) == {i \in 1..Len(records) : records[i].path = path}

(* C14: in the list returned by getPublishingStatuses the Deleted records   *)
(* are exactly the markdown files found by the destination scan whose path  *)
(* is not a candidate path, every candidate has exactly one record, with a  *)
(* status other than Deleted, and no path appears with two statuses.        *)
StatusesPartition ==
    HasCalled("getPublishingStatuses") =>
        LET records == ret.value
            candidates == Range(getPublishableFiles)
            found == IF call.arg THEN {} ELSE ScannedMarkdown
        IN  /\ {records[i].path : i \in {j \in 1..Len(records) : records[j].status = "deleted"}}
                  = found \ candidates
            /\ \A q \in candidates :
                  /\ Cardinality(RecordsOf(records, q)) = 1
                  /\ \A i \in RecordsOf(records, q) : records[i].status # "deleted"
            /\ \A i, j \in 1..Len(records) : records[i].path = records[j].path => i = j

\* a list with a candidate present in the destination, a new candidate and
\* a deleted file
MixedStatuses ==
    /\ HasCalled("getPublishingStatuses")
    /\ \E i, j, k \in 1..Len(ret.value) :
          /\ ret.value[i].status = "deleted"
          /\ ret.value[j].status = "new"
          /\ ret.value[k].status \in {"modified", "unmodified"}
          /\ IsMarkdown(ret.value[k].path)

\* the three contributions to the candidate set
CriterionPart ==
    {q \in VaultPaths :
        /\ IsMarkdown(q)
        /\ vault[q].hasMetadata
        /\ evaluate(settings.criterion, FileRecord(q)) = "true"}

AttachmentPart ==
    IF settings.publishAttachments
    THEN {t \in VaultPaths :
            /\ ~IsMarkdown(t)
            /\ \E q \in CriterionPart : t \in Range(LinkTargets(q))}
    ELSE {}

NonBlank(s) == \E i \in 1..Len(s) : ~IsSpace(s[i])

PatternPart ==
    IF NonBlank(settings.extraFilePatterns)
    THEN {q \in VaultPaths :
            matchesGlobPatterns(settings.extraFilePatterns, NormalizePath(PathString(q)))}
    ELSE {}

(* C15: the candidate set returned by getPublishableFiles is the            *)
(* deduplicated union of (1) the markdown files for which the criterion     *)
(* tree evaluates true, (2) when publishAttachments is set, the             *)
(* non-markdown files that links and embeds of files in (1) resolve to, and *)
(* (3) when extraFilePatterns is not blank, every vault file whose          *)
(* normalized path matches the glob list; a file failing (1) is included    *)
(* when it is in (2) or (3).                                                *)
CandidatesAreUnion ==
    HasCalled("getPublishableFiles") =>
        /\ Range(ret.value) = CriterionPart \cup AttachmentPart \cup PatternPart
        /\ Len(ret.value) = Cardinality(Range(ret.value))

\* a note that fails the criterion is a candidate through the patterns, an
\* image through the embed of a publishable note
NoteIncludedByPattern ==
    /\ HasCalled("getPublishableFiles")
    /\ NoteB \notin CriterionPart
    /\ NoteB \in Range(ret.value)
    /\ Image \in AttachmentPart
    /\ Image \in Range(ret.value)

\* the claim as it was made: no file without metadata is a candidate
NoMetadataNeverCandidate ==
    HasCalled("getPublishableFiles") =>
        \A q \in VaultPaths : ~vault[q].hasMetadata => q \notin Range(ret.value)

\* isFilePublishable returns false, and returns, for a file without metadata
NoMetadataNotPublishable ==
    (HasCalled("isFilePublishable") /\ ~vault[call.arg].hasMetadata) =>
        ret = Returned(FALSE)

\* a file without metadata is a candidate only through the attachments or
\* the extra patterns
NoMetadataOnlyBySteps23 ==
    HasCalled("getPublishableFiles") =>
        \A q \in VaultPaths :
            ~vault[q].hasMetadata =>
                (q \in Range(ret.value) <=> q \in AttachmentPart \cup PatternPart)

(* C16: a file with no retrievable metadata is treated as failing the       *)
(* criterion, without an error: isFilePublishable returns false for it, and *)
(* it is in the candidate set only when it is a referenced attachment or    *)
(* its path matches the extra file patterns.                                *)
NoMetadataFailsCriterion == NoMetadataNotPublishable /\ NoMetadataOnlyBySteps23

\* a tagged note without metadata is left out while the other note is in
TaggedNoteWithoutMetadataLeftOut ==
    /\ HasCalled("getPublishableFiles")
    /\ ~vault[NoteA].hasMetadata
    /\ vault[NoteA].content = ContentPublic
    /\ settings.criterion = TagCriterionDefault(<<"p">>)
    /\ NoteA \notin Range(ret.value)
    /\ NoteB \in CriterionPart

(* C20: when the destination scan fails part-way (a directory read raises   *)
(* after some markdown files were collected), getPublishedMarkdownFiles     *)
(* does not raise and returns the files collected so far.                   *)
ScanFailureReturnsCollected ==
    (HasCalled("getPublishedMarkdownFiles") /\ call.arg.fails) =>
        ret = Returned(scanDirectoryUntil(<<>>, call.arg).publishedFiles)

----------------------------------------------------------------------------
(* matchesGlobPatterns applied to glob lists and inputs drawn from bounded  *)
(* sets.                                                                    *)

\* lines of a glob list: blank, comment, too long for picomatch, a lone
\* '!', patterns and negated patterns, one of them indented
GlobLines ==
    {<<>>,
     <<" ">>,
     <<"#", "*">>,
     <<"LONG">>,
     <<"!">>,
     <<"*", ".", "p">>,
     <<"!", "*", ".", "p">>,
     <<" ", "d", "/", "*">>,
     <<"!", "d", "/", "*">>}

GlobInputs ==
    {<<"i", ".", "p">>, <<"d", "/", "i", ".", "p">>, <<"d", "/", "b", ".", "m", "d">>,
     <<"a", ".", "m", "d">>}

GlobLists == UNION {[1..n -> GlobLines] : n \in 0..MaxLines}

GlobInit ==
    /\ SyncIdle
    /\ CritIdle
    /\ ConfigIdle
    /\ FnIdle
    /\ FlightIdle

\* matchesGlobPatterns(lines.join('\n'), input)
CallMatchesGlobPatterns ==
    /\ call = NoData
    /\ \E lines \in GlobLists, input \in GlobInputs :
        /\ call' = Called("matchesGlobPatterns",
                          [multiLinePattern |-> join(lines, <<"\n">>), input |-> input])
        /\ ret' = Returned(matchesGlobPatterns(join(lines, <<"\n">>), input))
    /\ UNCHANGED <<critVars, flightVars, syncVars, configVars>>

GlobNext == CallMatchesGlobPatterns

SpecGlob == GlobInit /\ [][GlobNext]_vars

----------------------------------------------------------------------------
(* Properties of matchesGlobPatterns, checked under SpecGlob *)

\* the lines of the list that was given, in document order
GivenLines == split(call.arg.multiLinePattern, "\n")

LineNegated(line) == trim(line) # <<>> /\ Head(trim(line)) = "!"

LineGlob(line) == IF LineNegated(line) THEN Tail(trim(line)) ELSE trim(line)

\* blank, comment and invalid-glob lines are skipped
LineSkipped(line) ==
    \/ trim(line) = <<>>
    \/ Head(trim(line)) = "#"
    \/ LineGlob(line) = <<>>
    \/ PicomatchThrows(LineGlob(line))

MatchingLines ==
    {i \in 1..Len(GivenLines) :
        /\ ~LineSkipped(GivenLines[i])
        /\ PicomatchIsMatch(LineGlob(GivenLines[i]), call.arg.input)}

LastMatchingLine == CHOOSE i \in MatchingLines : \A j \in MatchingLines : j <= i

(* C17: matchesGlobPatterns is last-match-wins: with blank, '#'-comment and *)
(* invalid-glob lines skipped, the result is true iff some remaining line   *)
(* matches the input and the last matching line in document order is not    *)
(* '!'-negated; an empty list, a list without a matching line and a list    *)
(* whose last matching line is negated give false.                          *)
LastMatchWins ==
    HasCalled("matchesGlobPatterns") =>
        ret = Returned(/\ MatchingLines # {}
                       /\ ~LineNegated(GivenLines[LastMatchingLine]))

\* a line matched, a later negated line matched too, and a line after it
\* was skipped: the result is false
NegatedLineOverrides ==
    /\ HasCalled("matchesGlobPatterns")
    /\ Len(GivenLines) = 3
    /\ MatchingLines = {1, 2}
    /\ ~LineNegated(GivenLines[1])
    /\ LineNegated(GivenLines[2])
    /\ PicomatchThrows(LineGlob(GivenLines[3]))
    /\ ret = Returned(FALSE)

----------------------------------------------------------------------------
(* Properties of the criterion classes, checked under SpecCrit *)

\* the value of child i of the tree under evaluation
KidValue(i) == evaluate(tree.criteria[i], file)

\* the children that have the value v, by position
KidsWith(v) == {i \in 1..Len(tree.criteria) : KidValue(i) = v}

\* the position of the first child with the value v; past the end if none
FirstWith(v) ==
    IF KidsWith(v) = {} THEN Len(tree.criteria) + 1
    ELSE CHOOSE i \in KidsWith(v) : \A j \in KidsWith(v) : i <= j

AndTruthTable ==
    /\ result \in {"true", "false"}
    /\ result = "true" <=> \A i \in 1..Len(tree.criteria) : KidValue(i) = "true"
    /\ AndVisited(tree.criteria, file) <= FirstWith("false")

OrTruthTable ==
    /\ result \in {"true", "false"}
    /\ result = "true" <=> \E i \in 1..Len(tree.criteria) : KidValue(i) = "true"
    /\ OrVisited(tree.criteria, file) <= FirstWith("true")

NotTruthTable ==
    /\ result \in {"true", "false"}
    /\ result = "true" <=> evaluate(tree.criterion, file) = "false"
    /\ result = "false" <=> evaluate(tree.criterion, file) = "true"

(* C18: for all child lists and inputs, And is true iff every child is      *)
(* true (true for no children), Or is true iff some child is true (false    *)
(* for no children), Not is the negation of its child; And stops at the     *)
(* first false child and Or at the first true child, left to right, and     *)
(* never evaluates a later child.                                           *)
CompositeTruthTables ==
    result # "none" =>
        CASE tree.type = "And" -> AndTruthTable
          [] tree.type = "Or" -> OrTruthTable
          [] tree.type = "Not" -> NotTruthTable
          [] OTHER -> TRUE

\* no child, at any depth below the tree under evaluation, raises
RECURSIVE Returns(_, _)
Returns(c, f) ==
    /\ evaluate(c, f) # "throw"
    /\ c.type \in {"And", "Or"} => \A i \in 1..Len(c.criteria) : Returns(c.criteria[i], f)
    /\ c.type = "Not" => Returns(c.criterion, f)

\* the tables hold on the trees whose nodes all return
TruthTablesWhenReturning ==
    (result # "none" /\ Returns(tree, file)) => CompositeTruthTables

\* c, followed by '/', begins t
BeginsWithSegment(t, c) ==
    /\ Len(t) > Len(c)
    /\ \A k \in 1..Len(c) : t[k] = c[k]
    /\ t[Len(c) + 1] = "/"

\* c is one of the '/'-separated segments of t
IsSegmentOf(c, t) ==
    /\ \A k \in 1..Len(c) : c[k] # "/"
    /\ \E i \in 1..(Len(t) + 1) :
          /\ i = 1 \/ t[i - 1] = "/"
          /\ i + Len(c) - 1 <= Len(t)
          /\ SubSeq(t, i, i + Len(c) - 1) = c
          /\ i + Len(c) = Len(t) + 1 \/ t[i + Len(c)] = "/"

TagSatisfies(t, c, matchMode) ==
    CASE matchMode = "equals" -> t = c
      [] matchMode = "starts with" -> t = c \/ BeginsWithSegment(t, c)
      [] matchMode = "includes" -> IsSegmentOf(c, t)

(* C19: a Tag criterion with configured tag c evaluates true iff some tag t *)
(* of the file's full tag set (frontmatter tags united with inline tags),   *)
(* lowercased, satisfies the mode: Equals iff t = c, StartsWith iff t = c   *)
(* or t begins with c followed by '/', Includes iff c is one of the         *)
(* '/'-separated segments of t.                                             *)
TagModes ==
    (result # "none" /\ tree.type = "Tag") =>
        result = Bool(\E t \in getAllTagsFromFile(file) :
                         TagSatisfies(toLowerCase(t), tree.tag, tree.matchMode))

\* StartsWith p evaluated false on a file whose only tag is pl
StartsWithRejectsLongerWord ==
    /\ tree = TagCriterion(<<"p">>, "starts with")
    /\ getAllTagsFromFile(file) = {<<"p", "l">>}
    /\ result = "false"

----------------------------------------------------------------------------
(* Failures of single files during a reconcile, checked under Spec.         *)

\* the writes of the call that have been attempted, and those still to come
WritesAttempted(op) == Cardinality({i \in 1..Len(op.log) : op.log[i].ev = "write"})

WritesPending(op) == Cardinality({i \in 1..Len(op.todo) : op.todo[i].kind = "write"})

CopyPhasePending(op) == \E i \in 1..Len(op.todo) : op.todo[i].kind = "copyFilesToRepo"

(* C21: a failure writing one candidate file aborts only that file's copy:  *)
(* once a write of the call has raised, every candidate of the batch has    *)
(* still been written or is still going to be written.                      *)
WriteFailureSkipsOnlyThatFile ==
    \A s \in Slots :
        HasEvent(ops[s], "write", FALSE) =>
            WritesAttempted(ops[s]) + WritesPending(ops[s]) = Len(ops[s].files)

\* deleteFileFromRepo: what it passes to console.error.  A raise of fs.access
\* or fs.unlink is taken by the inner catch, whose body is empty; the outer
\* catch, which logs, is reached only by a raise of path.join
deleteFileFromRepoErrors(accessOrUnlinkRaises, joinRaises) ==
    IF joinRaises THEN {"Failed to delete"} ELSE {}

\* what the steps of a call have passed to console.error
consoleErrors(op) ==
    UNION {LET e == op.log[i]
           IN  CASE e.ev = "delete" -> deleteFileFromRepoErrors(~e.ok, FALSE)
                 [] e.ev = "scan" /\ ~e.ok -> {"Failed to scan publishing repo"}
                 [] e.ev = "FailureModal" -> {"Publishing failed"}
                 [] OTHER -> {}
           : i \in 1..Len(op.log)}

\* a deletion that raised is reported on the console
DeleteFailureLogged ==
    \A s \in Slots :
        HasEvent(ops[s], "delete", FALSE) => "Failed to delete" \in consoleErrors(ops[s])

\* a deletion that raised leaves the call running: the stale files after it
\* are still visited, and every candidate is written or going to be written
DeleteFailureContinues ==
    \A s \in Slots :
        (HasEvent(ops[s], "delete", FALSE) /\ ~HasEvent(ops[s], "write", FALSE)
            /\ ~GitFailed(ops[s])) =>
            /\ ops[s].pc = "run"
            /\ \/ CopyPhasePending(ops[s])
               \/ WritesAttempted(ops[s]) + WritesPending(ops[s]) = Len(ops[s].files)

(* C22: a failure deleting one stale file never aborts the reconciliation:  *)
(* the failure is logged, the remaining stale files are still deleted and   *)
(* the copy phase still runs for every candidate.                           *)
DeleteFailureLoggedAndContinues == DeleteFailureLogged /\ DeleteFailureContinues

----------------------------------------------------------------------------
(* What a reconcile leaves alone and what never becomes a candidate,        *)
(* checked under Spec.                                                      *)

KeepsOtherFiles ==
    \A q \in DestPaths :
        (dest[q].exists /\ (~IsMarkdown(q) \/ InDotDir(q))) => dest'[q].exists

(* C28: reconcile never deletes a destination file that is not a markdown   *)
(* file and never deletes a file located under a dot-prefixed directory,    *)
(* whatever the candidate set is: no step takes such a file away.           *)
ReconcileKeepsOtherFiles == [][KeepsOtherFiles]_vars

\* a reconcile with no candidate at all has deleted a note, and the image and
\* the note under the dot directory are still in the destination
EmptyReconcileLeftOtherFiles ==
    \E s \in Slots :
        /\ ReconciledClean(s)
        /\ ops[s].files = <<>>
        /\ HasEvent(ops[s], "delete", TRUE)
        /\ ~dest[OldNote].exists
        /\ dest[Image].exists
        /\ dest[GitNote].exists

\* the call has its candidate set
CandidatesComputed(op) ==
    /\ op.pc = "run"
    /\ \A i \in 1..Len(op.todo) : op.todo[i].kind # "getPublishableFiles"

\* the markdown files that neither the criterion nor the extra patterns select
Unselected ==
    {q \in VaultPaths : IsMarkdown(q) /\ q \notin CriterionPart /\ q \notin PatternPart}

(* C29: a markdown file for which the criterion tree evaluates false and    *)
(* whose path does not match the extra-file glob list is never in the       *)
(* candidate set of a call and no write of it is ever scheduled, even when  *)
(* a publishable note links to it and publishAttachments is set.            *)
UnselectedNoteNeverPublished ==
    \A s \in Slots :
        CandidatesComputed(ops[s]) =>
            \A q \in Unselected :
                /\ q \notin Range(ops[s].files)
                /\ \A i \in 1..Len(ops[s].todo) :
                       ops[s].todo[i].kind = "write" => ops[s].todo[i].path # q

\* a publishable note links to a note that is not publishable, attachments
\* are published, and the reconcile copied the first and its image only
LinkedPrivateNoteLeftOut ==
    \E s \in Slots :
        /\ ReconciledClean(s)
        /\ settings.publishAttachments
        /\ NoteA \in CriterionPart
        /\ NoteB \in Unselected
        /\ NoteB \in Range(LinkTargets(NoteA))
        /\ Range(ops[s].files) = {NoteA, Image}
        /\ HasEvent(ops[s], "write", TRUE)
        /\ ~dest[NoteB].exists

----------------------------------------------------------------------------
(* Confirming a preview.  The modal keeps the fileStatuses it was opened    *)
(* with; its onAction callback takes the action only, so publishNotes       *)
(* starts from the vault.  SpecConfirm is the preview and publish flow with *)
(* the preview always on and a destination that starts with notes only,    *)
(* and keeps the statuses of the closed modal next to the call it started.  *)

ConfirmInit ==
    /\ SyncInit
    /\ settings.showPreviewBeforePublishing
    /\ \A q \in DestPaths : dest[q].exists => IsMarkdown(q) /\ ~InDotDir(q)
    /\ CritIdle /\ ConfigIdle /\ FnIdle /\ FlightIdle

\* the candidates the modal was opened with
PreviewedFiles(op) ==
    SelectSeq([i \in 1..Len(op.fileStatuses) |-> op.fileStatuses[i].path],
              LAMBDA q : \E i \in 1..Len(op.fileStatuses) :
                            /\ op.fileStatuses[i].path = q
                            /\ op.fileStatuses[i].status # "deleted")

\* the buttons of the modal: this.close(), then onAction(action), which is
\* publishNotes(action === 'commit', true)
ConfirmAction(s, action) ==
    /\ ops[s].pc = "modal"
    /\ ButtonsShown(ops[s])
    /\ StepTo(s, [publishNotes(action = "commit", TRUE)
                     EXCEPT !.fileStatuses = ops[s].fileStatuses])
    /\ UNCHANGED <<critVars, flightVars, configVars, fnVars, settings, vault, dest, now, edits>>

ConfirmPublish(s) == ConfirmAction(s, "publish")

ConfirmCommit(s) == ConfirmAction(s, "commit")

ConfirmNext ==
    \/ \E s \in Slots : PreviewCommand(s)
    \/ \E s \in Slots : PreviewCompute(s)
    \/ \E s \in Slots : ConfirmPublish(s)
    \/ \E s \in Slots : ConfirmCommit(s)
    \/ \E s \in Slots : ModalCancel(s)
    \/ \E s \in Slots : Pull(s)
    \/ \E s \in Slots : GetPublishable(s)
    \/ \E s \in Slots : Scan(s)
    \/ \E s \in Slots : DeleteOne(s)
    \/ \E s \in Slots : CopyOne(s)
    \/ \E s \in Slots : Add(s)
    \/ \E s \in Slots : Commit(s)
    \/ \E s \in Slots : Push(s)
    \/ \E s \in Slots : Catch(s)
    \/ \E s \in Slots : Finish(s)
    \/ \E q \in VaultPaths, c \in NoteContents : EditNote(q, c)

SpecConfirm == ConfirmInit /\ [][ConfirmNext]_vars

----------------------------------------------------------------------------
(* Title and Path criteria in Glob match mode, checked under SpecCrit.      *)

IsGlobCriterion(c) == c.type \in {"Title", "Path"} /\ c.matchMode = "matches glob"

\* the pattern taken as one rule and tested against the target as it is
SingleRuleMatches(pattern, input) ==
    ~PicomatchThrows(pattern) /\ PicomatchIsMatch(pattern, input)

(* C23, as stated: in Glob match mode a Title or Path criterion treats its  *)
(* pattern as a single rule tested directly against the target: a pattern  *)
(* with a '!' prefix gives what the pattern without the prefix gives, and a *)
(* pattern of several lines gives what the pattern gives as one rule.       *)
GlobCriterionIsSingleRule ==
    (result # "none" /\ IsGlobCriterion(tree)) =>
        /\ startsWith(tree.pattern, <<"!">>) =>
               result = evaluate([tree EXCEPT !.pattern = Tail(@)], file)
        /\ includes(tree.pattern, <<"\n">>) =>
               result = Bool(SingleRuleMatches(tree.pattern, getTargetValue(tree, file)))

CriterionLines == split(tree.pattern, "\n")

CriterionMatchingLines ==
    {i \in 1..Len(CriterionLines) :
        /\ ~LineSkipped(CriterionLines[i])
        /\ PicomatchIsMatch(LineGlob(CriterionLines[i]), getTargetValue(tree, file))}

(* C23, as the code has it: in Glob match mode a Title or Path criterion    *)
(* hands its pattern to the multi-line matcher: the pattern is split into   *)
(* lines, blank, '#' and invalid lines are skipped, and the criterion is    *)
(* true iff some line matches the target and the last matching line is not  *)
(* '!'-negated.                                                             *)
GlobCriterionLastMatchWins ==
    (result # "none" /\ IsGlobCriterion(tree)) =>
        result = Bool(/\ CriterionMatchingLines # {}
                      /\ ~LineNegated(CriterionLines[
                             CHOOSE i \in CriterionMatchingLines :
                                 \A j \in CriterionMatchingLines : j <= i]))

\* the title _b is rejected by the pattern !_* and accepted by the second
\* line of a two-line pattern
NegatedTitleGlobRejects ==
    /\ file.basename = <<"_", "b">>
    /\ \/ tree = TitleCriterion(<<"!", "_", "*">>, "matches glob") /\ result = "false"
       \/ tree = TitleCriterion(<<"x", "\n", "_", "*">>, "matches glob") /\ result = "true"

----------------------------------------------------------------------------
(* Tag extraction from the body, checked under SpecTags: calls of           *)
(* extractTagsFromContent on bodies of up to MaxLines lines.                *)

BodyLines ==
    {<<>>,
     <<"#", "p">>,
     <<"x", " ", "#", "p", " ", "#", "b", "/", "l">>,
     <<"#", " ", "x">>,
     <<" ", "BQ", "BQ", "BQ", "x">>,
     <<"BQ", "BQ", "BQ", "#", "d">>,
     <<" ", "%", "%", "#", "m">>,
     <<"x", "%", "%", "#", "1">>}

Bodies == UNION {[1..n -> BodyLines] : n \in 0..MaxLines}

TagsInit ==
    /\ SyncIdle
    /\ CritIdle
    /\ ConfigIdle
    /\ FnIdle
    /\ FlightIdle

\* extractTagsFromContent(lines.join('\n'))
CallExtractTagsFromContent ==
    /\ call = NoData
    /\ \E lines \in Bodies :
        /\ call' = Called("extractTagsFromContent", [content |-> join(lines, <<"\n">>)])
        /\ ret' = Returned(extractTagsFromContent(join(lines, <<"\n">>)))
    /\ UNCHANGED <<critVars, flightVars, syncVars, configVars>>

TagsNext == CallExtractTagsFromContent

SpecTags == TagsInit /\ [][TagsNext]_vars

GivenBody == split(call.arg.content, "\n")

IsFence(line) == startsWith(trim(line), <<"BQ", "BQ", "BQ">>)

\* the flag when line i is reached: an odd number of fence lines precede it
InCodeBlockAt(i) == Cardinality({j \in 1..(i - 1) : IsFence(GivenBody[j])}) % 2 = 1

Contributes(i) ==
    /\ ~IsFence(GivenBody[i])
    /\ ~InCodeBlockAt(i)
    /\ ~startsWith(trim(GivenBody[i]), <<"%", "%">>)

\* the '#word' tokens of a line: at every '#' followed by a word character,
\* the longest run of word characters after it
WordAt(line, i) ==
    SubSeq(line, i,
           CHOOSE e \in i..Len(line) :
               /\ \A j \in i..e : IsWordChar(line[j])
               /\ e = Len(line) \/ ~IsWordChar(line[e + 1]))

Tokens(line) ==
    {WordAt(line, k + 1) :
        k \in {k \in 1..(Len(line) - 1) : line[k] = "#" /\ IsWordChar(line[k + 1])}}

(* C24: tag extraction over the body lines: a line whose trimmed form       *)
(* starts with a triple backtick toggles the in-code-block flag and         *)
(* contributes no tag; no tag is collected from a line while the flag is    *)
(* set; outside a block a line whose trimmed form starts with '%%'          *)
(* contributes no tag; every other line contributes all its '#word'         *)
(* tokens; the result holds each tag once.                                  *)
TagExtractionByLines ==
    HasCalled("extractTagsFromContent") =>
        ret = Returned(UNION {Tokens(GivenBody[i]) :
                                 i \in {i \in 1..Len(GivenBody) : Contributes(i)}})

\* a line with two tokens, then a fence that is never closed, then a tag
\* line: the tags of the first line only
UnclosedFenceHidesTags ==
    /\ HasCalled("extractTagsFromContent")
    /\ GivenBody = <<<<"x", " ", "#", "p", " ", "#", "b", "/", "l">>,
                     <<" ", "BQ", "BQ", "BQ", "x">>,
                     <<"x", "%", "%", "#", "1">>>>
    /\ ret = Returned({<<"p">>, <<"b">>})

----------------------------------------------------------------------------
(* The tag of a TagCriterion, checked under SpecConfig.                     *)

RECURSIVE TagsLowercase(_)
TagsLowercase(t) ==
    CASE t.type = "Tag" -> t.tag = toLowerCase(t.tag)
      [] t.type \in {"And", "Or"} ->
            \A i \in 1..Len(t.criteria) : TagsLowercase(t.criteria[i])
      [] t.type = "Not" -> TagsLowercase(t.criterion)
      [] OTHER -> TRUE

(* C25: in every reachable state the configured tag of every TagCriterion   *)
(* in the live criterion tree is lowercase, whatever the sequence of        *)
(* construct, deserialize, edits of the tag text field and Save.            *)
LiveTagsLowercase == liveCriterion # 0 => TagsLowercase(LiveTree)

----------------------------------------------------------------------------
(* Calls in flight and the publishing directory: SpecFlight.  The commands, *)
(* the ribbon icon and the buttons of the preview modal start publishNotes  *)
(* and previewPublishableFiles; the callbacks return at the first await and *)
(* nothing in the plugin records that a call is running.  The settings tab  *)
(* changes settings.repo and saveSettings replaces the PublishingService.   *)
(* SpecFlight follows, for each call, which directory each of its steps     *)
(* works in; the contents of the directories and the raises of the steps    *)
(* are left out.                                                            *)

\* most changes of the directory field in one behaviour
MaxRepoChanges == 1

Dirs == {<<"r", "1">>, <<"r", "2">>}

NoService == <<>>

IdleCall ==
    [pc |-> "idle", todo |-> <<>>, service |-> NoService, syncDirs |-> {}, gitDirs |-> {}]

\* onload: loadSettings, then new PublishingService(this.app, this.settings.repo)
FlightInit ==
    /\ SyncIdle /\ CritIdle /\ ConfigIdle /\ FnIdle
    /\ repo \in Dirs
    /\ publishingService = [repoPath |-> repo]
    /\ saving = 0
    /\ repoChanges = 0
    /\ calls = [s \in Slots |-> IdleCall]

FlightFrame == UNCHANGED <<critVars, syncVars, configVars, fnVars>>

\* a modal is open: the commands and the ribbon cannot be reached
ModalOpen == \E s \in Slots : calls[s].pc = "modal"

\* previewPublishableFiles: its awaited calls in order
previewSteps == <<"getPublishableFiles", "getPublishingStatuses", "hasUncommittedChanges">>

\* the command and the ribbon icon: publishNotes(), here with the preview off
FlightPublishCommand(s) ==
    /\ calls[s].pc = "idle"
    /\ ~ModalOpen
    /\ calls' = [calls EXCEPT ![s] =
                    [IdleCall EXCEPT !.pc = "run", !.todo = publishNotesSteps(FALSE)]]
    /\ UNCHANGED <<repo, publishingService, saving, repoChanges>>
    /\ FlightFrame

\* the command: previewPublishableFiles()
FlightPreviewCommand(s) ==
    /\ calls[s].pc = "idle"
    /\ ~ModalOpen
    /\ calls' = [calls EXCEPT ![s] = [IdleCall EXCEPT !.pc = "preview", !.todo = previewSteps]]
    /\ UNCHANGED <<repo, publishingService, saving, repoChanges>>
    /\ FlightFrame

InFlight(c) == c.pc \in {"preview", "run"} /\ c.todo # <<>>

NextStep(s, kinds) == InFlight(calls[s]) /\ Head(calls[s].todo) \in kinds

\* getPublishableFiles: reads the vault only
SelectStep(s) ==
    /\ NextStep(s, {"getPublishableFiles"})
    /\ calls' = [calls EXCEPT ![s].todo = Tail(@)]
    /\ UNCHANGED <<repo, publishingService, saving, repoChanges>>
    /\ FlightFrame

\* GitHelper.pull / add / commit / push / hasUncommittedChanges(this.settings.repo, ...)
AdapterStep(s) ==
    /\ NextStep(s, {"pull", "add", "commit", "push", "hasUncommittedChanges"})
    /\ calls' = [calls EXCEPT ![s].todo = Tail(@), ![s].gitDirs = @ \cup {repo}]
    /\ UNCHANGED <<repo, publishingService, saving, repoChanges>>
    /\ FlightFrame

\* this.publishingService.updateFilesInRepo(...) / getPublishingStatuses(...):
\* the method of the current PublishingService is entered
ServiceCall(s) ==
    /\ NextStep(s, {"updateFilesInRepo", "getPublishingStatuses"})
    /\ calls' = [calls EXCEPT
                    ![s].service = publishingService.repoPath,
                    ![s].todo = (IF Head(@) = "updateFilesInRepo"
                                 THEN updateFilesInRepoSteps
                                 ELSE <<"getFileStatus", "getPublishedMarkdownFiles">>)
                                \o Tail(@)]
    /\ UNCHANGED <<repo, publishingService, saving, repoChanges>>
    /\ FlightFrame

\* the stats, the scan, the deletions and the copies of the entered method:
\* all below this.repoPath
ServiceStep(s) ==
    /\ NextStep(s, {"cleanupRepo", "copyFilesToRepo",
                    "getFileStatus", "getPublishedMarkdownFiles"})
    /\ calls' = [calls EXCEPT ![s].todo = Tail(@),
                              ![s].syncDirs = @ \cup {calls[s].service}]
    /\ UNCHANGED <<repo, publishingService, saving, repoChanges>>
    /\ FlightFrame

\* previewPublishableFiles has its statuses: it returns with a Notice when
\* there is nothing to show, else new PublishPreviewModal(...).open()
OpenModal(s) ==
    /\ calls[s].pc = "preview"
    /\ calls[s].todo = <<>>
    /\ \E nothingToShow \in BOOLEAN :
          calls' = [calls EXCEPT ![s] =
                       IF nothingToShow THEN IdleCall ELSE [IdleCall EXCEPT !.pc = "modal"]]
    /\ UNCHANGED <<repo, publishingService, saving, repoChanges>>
    /\ FlightFrame

\* Publish or Commit: close(), then publishNotes(action === 'commit', true)
FlightConfirm(s) ==
    /\ calls[s].pc = "modal"
    /\ \E onlyCommit \in BOOLEAN :
          calls' = [calls EXCEPT ![s] =
                       [IdleCall EXCEPT !.pc = "run", !.todo = publishNotesSteps(onlyCommit)]]
    /\ UNCHANGED <<repo, publishingService, saving, repoChanges>>
    /\ FlightFrame

\* Cancel: close()
FlightCancel(s) ==
    /\ calls[s].pc = "modal"
    /\ calls' = [calls EXCEPT ![s] = IdleCall]
    /\ UNCHANGED <<repo, publishingService, saving, repoChanges>>
    /\ FlightFrame

\* publishNotes has returned
FlightFinish(s) ==
    /\ calls[s].pc = "run"
    /\ calls[s].todo = <<>>
    /\ calls' = [calls EXCEPT ![s] = IdleCall]
    /\ UNCHANGED <<repo, publishingService, saving, repoChanges>>
    /\ FlightFrame

\* the directory field of the settings tab, up to the await in saveSettings:
\* this.plugin.settings.repo = value; await this.plugin.saveSettings()
ChangeRepo(value) ==
    /\ repoChanges < MaxRepoChanges
    /\ ~ModalOpen
    /\ value # repo
    /\ repo' = value
    /\ saving' = saving + 1
    /\ repoChanges' = repoChanges + 1
    /\ UNCHANGED <<publishingService, calls>>
    /\ FlightFrame

\* saveSettings after saveData: new PublishingService(this.app, this.settings.repo)
SaveSettingsDone ==
    /\ saving > 0
    /\ publishingService' = [repoPath |-> repo]
    /\ saving' = saving - 1
    /\ UNCHANGED <<repo, repoChanges, calls>>
    /\ FlightFrame

FlightNext ==
    \/ \E s \in Slots : FlightPublishCommand(s)
    \/ \E s \in Slots : FlightPreviewCommand(s)
    \/ \E s \in Slots : SelectStep(s)
    \/ \E s \in Slots : AdapterStep(s)
    \/ \E s \in Slots : ServiceCall(s)
    \/ \E s \in Slots : ServiceStep(s)
    \/ \E s \in Slots : OpenModal(s)
    \/ \E s \in Slots : FlightConfirm(s)
    \/ \E s \in Slots : FlightCancel(s)
    \/ \E s \in Slots : FlightFinish(s)
    \/ \E value \in Dirs : ChangeRepo(value)
    \/ SaveSettingsDone

SpecFlight == FlightInit /\ [][FlightNext]_vars

\* the call has read or changed a publishing directory
Touched(c) == c.syncDirs # {} \/ c.gitDirs # {}

(* C26: at most one preview or publish operation is in flight at any time:  *)
(* a second publishNotes or previewPublishableFiles never reads or changes  *)
(* the destination while an earlier one has not finished.                   *)
OneOperationInFlight ==
    \A s, t \in Slots :
        (s # t /\ InFlight(calls[s]) /\ InFlight(calls[t])) =>
            ~(Touched(calls[s]) /\ Touched(calls[t]))

(* C27: during a publish or a preview, whatever the interleaving with a     *)
(* change of the publishing directory in the settings, the directory the    *)
(* sync engine stats, scans, deletes and copies in is the one in which      *)
(* every version-control operation of that call runs.                       *)
OneDirectoryPerCall ==
    \A s \in Slots : Cardinality(calls[s].syncDirs \cup calls[s].gitDirs) <= 1

====
